---- MODULE Spec2Model ----
(***************************************************************************)
(* Model of the MIDI reader of M2B (src/M2B.py): MidiFile.fromFile, the    *)
(* TempoMap and readMIDIFile (note assembly, track filtering and the       *)
(* format-0 channel explosion).                                            *)
(*                                                                         *)
(* Time in seconds is a float in the Python code.  Here a time in seconds  *)
(* is kept exactly, as an integer number of units of 1/(ppqn * 1000000)    *)
(* second: the code's                                                      *)
(*     seconds + (ticks - anchorTicks) * (tempo / ppqn / 1000000)          *)
(* is  units + (ticks - anchorTicks) * tempo  in these units, and one      *)
(* second is ppqn * 1000000 units.  A velocity (raw / 127 in the code) is  *)
(* kept as the fraction <<raw, 127>>.                                      *)
(***************************************************************************)
EXTENDS Integers, Sequences, FiniteSets, TLC

(***************************************************************************)
(* Bounds of the model and the sets the file's contents are drawn from.    *)
(***************************************************************************)
MaxTracks == 3
\* The events of a file, the EndOfTrack event of each track included.
MaxEvents == 6
\* The pieces the bytes of a track chunk are made of.
MaxChunks == 4
\* The values given as variable-length quantities go up to 2^MaxBits.
MaxBits == 28
\* The events between the Tempo event and the EndOfTrack event of a track chunk
\* given by its bytes.
MaxNoteChunks == 4
\* The runs of note events of a file given by its runs.
MaxRuns == 3
\* The meta events before the EndOfTrack event of a track chunk of meta events.
MaxMetaChunks == 2

Formats == {0, 1, 2}
PPQNs == {480}
Deltas == {0, 480}
Tempos == {500000, 250000}
Channels == {0}
NoteNumbers == {60}
\* The <<deltaTime, velocity>> of the NoteOn events: one on the tick of the
\* event before it, one later and louder.
NoteOns == {<<0, 64>>, <<480, 100>>}
Names == {"Piano"}

(***************************************************************************)
(* Events, as the dataclasses of src/M2B.py.                               *)
(***************************************************************************)
NoteOffEvent(d, c, n, v) ==
    [type |-> "NoteOff", deltaTime |-> d, channel |-> c, note |-> n, velocity |-> v]

NoteOnEvent(d, c, n, v) ==
    [type |-> "NoteOn", deltaTime |-> d, channel |-> c, note |-> n, velocity |-> v]

TrackNameEvent(d, s) ==
    [type |-> "TrackName", deltaTime |-> d, name |-> s]

EndOfTrackEvent(d) ==
    [type |-> "EndOfTrack", deltaTime |-> d]

TempoEvent(d, t) ==
    [type |-> "Tempo", deltaTime |-> d, tempo |-> t]

\* The events parseEvent may return before the EndOfTrack event of a track.
\* Time advances on the note events; the meta events come with deltaTime 0.
BodyEvents ==
    {TempoEvent(0, t) : t \in Tempos}
    \cup {NoteOnEvent(dv[1], c, n, dv[2]) : dv \in NoteOns, c \in Channels, n \in NoteNumbers}
    \cup {NoteOffEvent(d, c, n, 0) : d \in Deltas, c \in Channels, n \in NoteNumbers}
    \cup {TrackNameEvent(0, s) : s \in Names}

\* The keys (channel, note) and the events of the files of SpecKeys: one note
\* on two channels, two notes on one channel; every NoteOff is 480 ticks after
\* the event before it.
Keys == {<<0, 60>>, <<0, 62>>, <<1, 60>>}

KeyBodyEvents ==
    {NoteOnEvent(dv[1], k[1], k[2], dv[2]) : dv \in NoteOns, k \in Keys}
    \cup {NoteOffEvent(480, k[1], k[2], 0) : k \in Keys}
    \cup {TrackNameEvent(0, s) : s \in Names}

(***************************************************************************)
(* The records of the MIDI module.                                         *)
(***************************************************************************)
MIDINote(channel, noteNumber, timeOn, timeOff, velocity) ==
    [channel |-> channel, noteNumber |-> noteNumber, timeOn |-> timeOn,
     timeOff |-> timeOff, velocity |-> velocity]

MIDITrack(name, index, minNote, maxNote, notes, notesUsed) ==
    [name |-> name, index |-> index, minNote |-> minNote, maxNote |-> maxNote,
     notes |-> notes, notesUsed |-> notesUsed]

TempoEventRecord(timeInTicks, timeInSeconds, tempo) ==
    [timeInTicks |-> timeInTicks, timeInSeconds |-> timeInSeconds, tempo |-> tempo]

NoteOnRecord(ticks, time, velocity) ==
    [ticks |-> ticks, time |-> time, velocity |-> velocity, numberOfNotes |-> 1]

\* A new MidiParseState.
MidiParseState == [runningStatus |-> 0]

\* A new TrackState.
TrackState ==
    [timeInTicks |-> 0, timeInSeconds |-> 0, noteOnTable |-> <<>>]

Min(a, b) == IF a <= b THEN a ELSE b
Max(a, b) == IF a >= b THEN a ELSE b

\* s without the entry of key k (del s[k]).
Without(s, k) == [x \in DOMAIN s \ {k} |-> s[x]]

\* v in the list s.
InList(v, s) == \E i \in 1..Len(s) : s[i] = v

(***************************************************************************)
(* TempoMap.                                                               *)
(***************************************************************************)
\* MatchedEvent without reversed(): the first record of the list at or before
\* the tick, not the last.
MatchedEvent_Forward(tempoEvents, timeInTicks, i) ==
    LET at == {j \in 1..Len(tempoEvents) : tempoEvents[j].timeInTicks <= timeInTicks}
    IN  IF at = {} THEN TempoEventRecord(0, 0, 500000)
        ELSE tempoEvents[CHOOSE j \in at : \A k \in at : j <= k]

\* MatchedEvent falling back on the first record of the list, when there is one,
\* where no record is at or before the tick.
RECURSIVE MatchedEvent_FirstAsDefault(_, _, _)
MatchedEvent_FirstAsDefault(tempoEvents, timeInTicks, i) ==
    IF i = 0 THEN IF tempoEvents # <<>> THEN tempoEvents[1] ELSE TempoEventRecord(0, 0, 500000)
    ELSE IF tempoEvents[i].timeInTicks <= timeInTicks THEN tempoEvents[i]
    ELSE MatchedEvent_FirstAsDefault(tempoEvents, timeInTicks, i - 1)

\* next(filter(matchFunction, reversed(tempoEvents)), TempoEventRecord(0, 0, 500_000)),
\* the scan being at position i of tempoEvents, going down.
RECURSIVE MatchedEvent(_, _, _)
MatchedEvent(tempoEvents, timeInTicks, i) ==
    IF i = 0 THEN TempoEventRecord(0, 0, 500000)
    ELSE IF tempoEvents[i].timeInTicks <= timeInTicks THEN tempoEvents[i]
    ELSE MatchedEvent(tempoEvents, timeInTicks, i - 1)

\* timeInTicksToSeconds returning the seconds elapsed since the matched record
\* without the seconds of the record.
timeInTicksToSeconds_ElapsedOnly(tt, midiFormat, trackIndex, timeInTicks) ==
    LET index == IF midiFormat # 1 THEN trackIndex ELSE 0
        tempoEvents == tt[index + 1]
        tempoEvent == MatchedEvent(tempoEvents, timeInTicks, Len(tempoEvents))
    IN  (timeInTicks - tempoEvent.timeInTicks) * tempoEvent.tempo

\* TempoMap.timeInTicksToSeconds, of the TempoMap whose tempoTracks is tt.
timeInTicksToSeconds(tt, midiFormat, trackIndex, timeInTicks) ==
    LET index == IF midiFormat # 1 THEN trackIndex ELSE 0
        tempoEvents == tt[index + 1]
        tempoEvent == MatchedEvent(tempoEvents, timeInTicks, Len(tempoEvents))
    IN  tempoEvent.timeInSeconds + (timeInTicks - tempoEvent.timeInTicks) * tempoEvent.tempo

\* The inner loop of computeTempoTracks over track.events, from event i on.
\* event.deltaTime raises AttributeError when the event is None.
RECURSIVE TempoTrackLoop(_, _, _, _, _, _)
TempoTrackLoop(tt, midiFormat, trackIndex, evs, i, timeInTicks) ==
    IF i > Len(evs) THEN [raised |-> "none", tempoTracks |-> tt]
    ELSE IF evs[i].type = "None" THEN [raised |-> "AttributeError", tempoTracks |-> tt]
    ELSE LET ticks == timeInTicks + evs[i].deltaTime
             seconds == timeInTicksToSeconds(tt, midiFormat, trackIndex, ticks)
             tt2 == IF evs[i].type = "Tempo"
                    THEN [tt EXCEPT ![trackIndex + 1] =
                              Append(@, TempoEventRecord(ticks, seconds, evs[i].tempo))]
                    ELSE tt
         IN  TempoTrackLoop(tt2, midiFormat, trackIndex, evs, i + 1, ticks)

\* The outer loop of computeTempoTracks, from the track at trackIndex on:
\* self.tempoTracks[trackIndex] raises IndexError beyond the end of tempoTracks.
RECURSIVE TempoTracksLoop(_, _, _, _)
TempoTracksLoop(tt, midiFormat, trks, trackIndex) ==
    IF trackIndex >= Len(trks) THEN [raised |-> "none", tempoTracks |-> tt]
    ELSE IF trackIndex >= Len(tt) THEN [raised |-> "IndexError", tempoTracks |-> tt]
    ELSE LET r == TempoTrackLoop(tt, midiFormat, trackIndex, trks[trackIndex + 1], 1, 0)
         IN  IF r.raised # "none" THEN r
             ELSE TempoTracksLoop(r.tempoTracks, midiFormat, trks, trackIndex + 1)

\* TempoMap.computeTempoTracks.  [[] * len(tracks)] is the list of one empty
\* list, whatever len(tracks) is.
computeTempoTracks(mf) ==
    LET trks == IF mf.midiFormat = 1 THEN SubSeq(mf.tracks, 1, Min(1, Len(mf.tracks)))
                ELSE mf.tracks
    IN  TempoTracksLoop(<< <<>> >>, mf.midiFormat, trks, 0)

VARIABLES
    pc,             \* where readMIDIFile is: "parse", "tempoMap", "setTempo", "assemble", "done", "error"
    error,          \* the exception that ended readMIDIFile, "none" while there is none
    tracksCount,    \* parseHeader: the number of track chunks the header declares
    memoryMap,      \* the bytes of the events of the track chunk, after its header
    position,       \* the position of the cursor of memoryMap
    parseState,     \* parseEvents: the MidiParseState of the track
    events,         \* parseEvents: the events of the track being parsed
    midiFile,       \* MidiFile: midiFormat, ppqn, tempo, tracks
    tempoTracks,    \* TempoMap.tempoTracks
    workingTracks,  \* readMIDIFile: the tracks kept so far
    origin,         \* history: origin[i] is the position in midiFile.tracks of the
                    \* file track that workingTracks[i], then tracks[i], comes from
    trackIndexUsed, \* readMIDIFile: the index of the next track kept
    trackIndex,     \* readMIDIFile: the position of the loop in fileTracks
    eventIndex,     \* readMIDIFile: the position of the inner loop in track.events (from 1)
    notes, notesUsed, trackName, minNote, maxNote, minDurationInTicks,
    trackState,     \* readMIDIFile: the TrackState of the current track
    tracks,         \* the track list readMIDIFile returns
    stats           \* determineGlobalRanges: its stats, <<>> before it is called

locals == <<notes, notesUsed, trackName, minNote, maxNote, minDurationInTicks, trackState>>

\* What reads the bytes of the file.
reader == <<memoryMap, position, parseState>>

vars == <<pc, error, tracksCount, reader, events, midiFile, tempoTracks, workingTracks, origin,
          trackIndexUsed, trackIndex, eventIndex, locals, tracks, stats>>

\* The number of events of the tracks ts.
RECURSIVE SumLen(_)
SumLen(ts) == IF ts = <<>> THEN 0 ELSE Len(Head(ts)) + SumLen(Tail(ts))

\* The values of the locals of readMIDIFile at the start of an iteration of
\* the loop over fileTracks.
StartOfTrack ==
    /\ notes' = <<>>
    /\ notesUsed' = <<>>
    /\ trackName' = ""
    /\ trackState' = TrackState
    /\ minNote' = 1000
    /\ minDurationInTicks' = 1000000
    /\ maxNote' = 0
    /\ eventIndex' = 1

Init ==
    /\ tracksCount \in 0..MaxTracks
    /\ pc = IF tracksCount = 0 THEN "tempoMap" ELSE "parse"
    /\ error = "none"
    /\ memoryMap = <<>>
    /\ position = 0
    /\ parseState = MidiParseState
    /\ events = <<>>
    /\ midiFile \in [midiFormat : Formats, ppqn : PPQNs, tempo : {-1}, tracks : {<<>>}]
    /\ tempoTracks = <<>>
    /\ workingTracks = <<>>
    /\ origin = <<>>
    /\ trackIndexUsed = 0
    /\ trackIndex = 0
    /\ eventIndex = 1
    /\ notes = <<>>
    /\ notesUsed = <<>>
    /\ trackName = ""
    /\ minNote = 1000
    /\ maxNote = 0
    /\ minDurationInTicks = 1000000
    /\ trackState = TrackState
    /\ tracks = <<>>
    /\ stats = <<>>

(***************************************************************************)
(* MidiFile.fromFile.  The bytes of the file are not modelled here: each   *)
(* call of parseEvent returns one event.                                   *)
(***************************************************************************)
\* parseEvents: one more event of the current track that is not EndOfTrack.
\* The bound leaves room for the EndOfTrack event of every track to come.
ParseEvent ==
    /\ pc = "parse"
    /\ SumLen(midiFile.tracks) + Len(events) + 1 + (tracksCount - Len(midiFile.tracks))
           <= MaxEvents
    /\ \E e \in BodyEvents : events' = Append(events, e)
    /\ UNCHANGED <<pc, error, tracksCount, reader, midiFile, tempoTracks, workingTracks, origin,
                   trackIndexUsed, trackIndex, eventIndex, locals, tracks, stats>>

\* parseEvents: the EndOfTrack event ends the track; parseTracks goes on to
\* the next track chunk, and fromFile returns after the last one.
ParseEndOfTrack ==
    /\ pc = "parse"
    /\ midiFile' = [midiFile EXCEPT !.tracks = Append(@, Append(events, EndOfTrackEvent(0)))]
    /\ events' = <<>>
    /\ pc' = IF Len(midiFile.tracks) + 1 = tracksCount THEN "tempoMap" ELSE "parse"
    /\ UNCHANGED <<error, tracksCount, reader, tempoTracks, workingTracks, origin,
                   trackIndexUsed, trackIndex, eventIndex, locals, tracks, stats>>

(***************************************************************************)
(* readMIDIFile.                                                           *)
(***************************************************************************)
\* tempoMap = TempoMap(midiFile).  When the constructor raises there is no
\* TempoMap: tempoTracks stays <<>>.
BuildTempoMap ==
    /\ pc = "tempoMap"
    /\ LET r == computeTempoTracks(midiFile)
       IN  /\ tempoTracks' = IF r.raised = "none" THEN r.tempoTracks ELSE tempoTracks
           /\ error' = r.raised
           /\ pc' = IF r.raised = "none" THEN "setTempo" ELSE "error"
    /\ UNCHANGED <<tracksCount, reader, events, midiFile, workingTracks, origin,
                   trackIndexUsed, trackIndex, eventIndex, locals, tracks, stats>>

\* The tempo of the file, tempoMap.tempoTracks[0][0].tempo raising IndexError
\* when the first tempo track is empty; then the loop over fileTracks starts.
SetTempo ==
    /\ pc = "setTempo"
    /\ IF Len(tempoTracks) = 1 /\ Len(tempoTracks[1]) = 0
       THEN /\ pc' = "error"
            /\ error' = "IndexError"
            /\ UNCHANGED <<midiFile, workingTracks, trackIndexUsed, trackIndex,
                           eventIndex, locals>>
       ELSE /\ midiFile' = [midiFile EXCEPT !.tempo =
                               IF Len(tempoTracks) = 1 THEN tempoTracks[1][1].tempo ELSE 0]
            /\ workingTracks' = <<>>
            /\ trackIndexUsed' = 0
            /\ trackIndex' = 0
            /\ StartOfTrack
            /\ pc' = "assemble"
            /\ UNCHANGED error
    /\ UNCHANGED <<tracksCount, reader, events, tempoTracks, origin, tracks, stats>>

\* fileTracks without the exception for format 1: every track of the file.
fileTracks_All == midiFile.tracks

\* fileTracks = midiFile.tracks if midiFile.midiFormat != 1 else midiFile.tracks[1:]
fileTracks ==
    IF midiFile.midiFormat # 1 THEN midiFile.tracks
    ELSE SubSeq(midiFile.tracks, 2, Len(midiFile.tracks))

\* The position in midiFile.tracks (from 1) of fileTracks[trackIndex].
FilePosition ==
    trackIndex + 1 + (Len(midiFile.tracks) - Len(fileTracks))

\* The loop over track.events is at an event.
AtEvent ==
    /\ pc = "assemble"
    /\ trackIndex < Len(fileTracks)
    /\ eventIndex <= Len(fileTracks[trackIndex + 1])

event == fileTracks[trackIndex + 1][eventIndex]

\* TrackState.updateTime
updateTime(ts, deltaTime) ==
    LET ticks == ts.timeInTicks + deltaTime
    IN  [ts EXCEPT !.timeInTicks = ticks,
                   !.timeInSeconds =
                       timeInTicksToSeconds(tempoTracks, midiFile.midiFormat, trackIndex, ticks)]

\* recordNoteOn keeping the velocity as it is in the event, not over 127.
recordNoteOn_RawVelocity(ts, e) ==
    LET key == <<e.channel, e.note>>
    IN  IF key \in DOMAIN ts.noteOnTable
        THEN [ts EXCEPT !.noteOnTable[key].numberOfNotes = @ + 1]
        ELSE [ts EXCEPT !.noteOnTable = (key :> NoteOnRecord(ts.timeInTicks,
                                   ts.timeInSeconds, <<e.velocity, 1>>)) @@ @]

\* recordNoteOn starting the record of the key again on a repeated NoteOn.
recordNoteOn_Restart(ts, e) ==
    LET key == <<e.channel, e.note>>
    IN  IF key \in DOMAIN ts.noteOnTable
        THEN [ts EXCEPT !.noteOnTable[key] =
                 [NoteOnRecord(ts.timeInTicks, ts.timeInSeconds, <<e.velocity, 127>>)
                      EXCEPT !.numberOfNotes = ts.noteOnTable[key].numberOfNotes + 1]]
        ELSE [ts EXCEPT !.noteOnTable = (key :> NoteOnRecord(ts.timeInTicks,
                                   ts.timeInSeconds, <<e.velocity, 127>>)) @@ @]

\* TrackState.recordNoteOn
recordNoteOn(ts, e) ==
    LET key == <<e.channel, e.note>>
    IN  IF key \in DOMAIN ts.noteOnTable
        THEN [ts EXCEPT !.noteOnTable[key].numberOfNotes = @ + 1]
        ELSE [ts EXCEPT !.noteOnTable = (key :> NoteOnRecord(ts.timeInTicks,
                                   ts.timeInSeconds, <<e.velocity, 127>>)) @@ @]

\* getCorrespondingNoteOnRecord leaving numberOfNotes as it is when it returns
\* None.
getCorrespondingNoteOnRecord_NoDecrement(ts, e) ==
    LET key == <<e.channel, e.note>>
    IN  IF key \notin DOMAIN ts.noteOnTable
        THEN [raised |-> "KeyError", returned |-> <<>>, state |-> ts]
        ELSE IF ts.noteOnTable[key].numberOfNotes = 1
        THEN [raised |-> "none", returned |-> <<ts.noteOnTable[key]>>,
              state |-> [ts EXCEPT !.noteOnTable = Without(@, key)]]
        ELSE [raised |-> "none", returned |-> <<>>, state |-> ts]

\* TrackState.getCorrespondingNoteOnRecord: the exception raised, what is
\* returned (<<>> for None, <<record>> for a record) and the TrackState it leaves.
getCorrespondingNoteOnRecord(ts, e) ==
    LET key == <<e.channel, e.note>>
    IN  IF key \notin DOMAIN ts.noteOnTable
        THEN [raised |-> "KeyError", returned |-> <<>>, state |-> ts]
        ELSE IF ts.noteOnTable[key].numberOfNotes = 1
        THEN [raised |-> "none", returned |-> <<ts.noteOnTable[key]>>,
              state |-> [ts EXCEPT !.noteOnTable = Without(@, key)]]
        ELSE [raised |-> "none", returned |-> <<>>,
              state |-> [ts EXCEPT !.noteOnTable[key].numberOfNotes = @ - 1]]

\* OnTrackName keeping the first name of the track.
OnTrackName_FirstWins ==
    /\ AtEvent
    /\ event.type = "TrackName"
    /\ trackState' = updateTime(trackState, event.deltaTime)
    /\ trackName' = IF trackName = "" THEN event.name ELSE trackName
    /\ eventIndex' = eventIndex + 1
    /\ UNCHANGED <<pc, error, tracksCount, reader, events, midiFile, tempoTracks, workingTracks,
                   origin, trackIndexUsed, trackIndex, notes, notesUsed, minNote, maxNote,
                   minDurationInTicks, tracks, stats>>

\* isinstance(event, TrackNameEvent)
OnTrackName ==
    /\ AtEvent
    /\ event.type = "TrackName"
    /\ trackState' = updateTime(trackState, event.deltaTime)
    /\ trackName' = event.name
    /\ eventIndex' = eventIndex + 1
    /\ UNCHANGED <<pc, error, tracksCount, reader, events, midiFile, tempoTracks, workingTracks,
                   origin, trackIndexUsed, trackIndex, notes, notesUsed, minNote, maxNote,
                   minDurationInTicks, tracks, stats>>

\* OnNoteOn appending the note to notesUsed whether it is there or not.
OnNoteOn_AppendAlways ==
    /\ AtEvent
    /\ event.type = "NoteOn"
    /\ trackState' = recordNoteOn(updateTime(trackState, event.deltaTime), event)
    /\ minNote' = Min(minNote, event.note)
    /\ maxNote' = Max(maxNote, event.note)
    /\ notesUsed' = Append(notesUsed, event.note)
    /\ eventIndex' = eventIndex + 1
    /\ UNCHANGED <<pc, error, tracksCount, reader, events, midiFile, tempoTracks, workingTracks,
                   origin, trackIndexUsed, trackIndex, notes, trackName,
                   minDurationInTicks, tracks, stats>>

\* isinstance(event, NoteOnEvent)
OnNoteOn ==
    /\ AtEvent
    /\ event.type = "NoteOn"
    /\ trackState' = recordNoteOn(updateTime(trackState, event.deltaTime), event)
    /\ minNote' = Min(minNote, event.note)
    /\ maxNote' = Max(maxNote, event.note)
    /\ notesUsed' = IF InList(event.note, notesUsed) THEN notesUsed
                    ELSE Append(notesUsed, event.note)
    /\ eventIndex' = eventIndex + 1
    /\ UNCHANGED <<pc, error, tracksCount, reader, events, midiFile, tempoTracks, workingTracks,
                   origin, trackIndexUsed, trackIndex, notes, trackName,
                   minDurationInTicks, tracks, stats>>

\* isinstance(event, NoteOffEvent)
OnNoteOff ==
    /\ AtEvent
    /\ event.type = "NoteOff"
    /\ LET timed == updateTime(trackState, event.deltaTime)
           r == getCorrespondingNoteOnRecord(timed, event)
           noteOnRecord == r.returned[1]
       IN  IF r.raised # "none"
           THEN /\ pc' = "error"
                /\ error' = r.raised
                /\ trackState' = timed
                /\ UNCHANGED <<notes, minDurationInTicks, eventIndex>>
           ELSE /\ trackState' = r.state
                /\ eventIndex' = eventIndex + 1
                /\ UNCHANGED <<pc, error>>
                /\ IF r.returned = <<>>
                   THEN UNCHANGED <<notes, minDurationInTicks>>
                   ELSE /\ notes' = Append(notes, MIDINote(event.channel, event.note,
                                        noteOnRecord.time, r.state.timeInSeconds,
                                        noteOnRecord.velocity))
                        /\ minDurationInTicks' = Min(minDurationInTicks,
                                        r.state.timeInTicks - noteOnRecord.ticks)
    /\ UNCHANGED <<tracksCount, reader, events, midiFile, tempoTracks, workingTracks, origin,
                   trackIndexUsed, trackIndex, notesUsed, trackName, minNote, maxNote,
                   tracks, stats>>

\* Any other event: only the time of the track moves.  event.deltaTime raises
\* AttributeError when the event is None.
OnOtherEvent ==
    /\ AtEvent
    /\ event.type \notin {"TrackName", "NoteOn", "NoteOff"}
    /\ IF event.type = "None"
       THEN /\ pc' = "error"
            /\ error' = "AttributeError"
            /\ UNCHANGED <<trackState, eventIndex>>
       ELSE /\ trackState' = updateTime(trackState, event.deltaTime)
            /\ eventIndex' = eventIndex + 1
            /\ UNCHANGED <<pc, error>>
    /\ UNCHANGED <<tracksCount, reader, events, midiFile, tempoTracks, workingTracks,
                   origin, trackIndexUsed, trackIndex, notes, notesUsed, trackName,
                   minNote, maxNote, minDurationInTicks, tracks, stats>>

\* EndOfTrack keeping the track whatever notesUsed is.
EndOfTrack_KeepAll ==
    /\ pc = "assemble"
    /\ trackIndex < Len(fileTracks)
    /\ eventIndex > Len(fileTracks[trackIndex + 1])
    /\ workingTracks' = Append(workingTracks,
           MIDITrack(trackName, trackIndexUsed, minNote, maxNote, notes, notesUsed))
    /\ origin' = Append(origin, FilePosition)
    /\ trackIndexUsed' = trackIndexUsed + 1
    /\ trackIndex' = trackIndex + 1
    /\ StartOfTrack
    /\ UNCHANGED <<pc, error, tracksCount, reader, events, midiFile, tempoTracks, tracks, stats>>

\* EndOfTrack giving a kept track its position in fileTracks for index.
EndOfTrack_FileIndex ==
    /\ pc = "assemble"
    /\ trackIndex < Len(fileTracks)
    /\ eventIndex > Len(fileTracks[trackIndex + 1])
    /\ IF notesUsed # <<>>
       THEN /\ workingTracks' = Append(workingTracks,
                  MIDITrack(trackName, trackIndex, minNote, maxNote, notes, notesUsed))
            /\ origin' = Append(origin, FilePosition)
            /\ trackIndexUsed' = trackIndexUsed + 1
       ELSE UNCHANGED <<workingTracks, origin, trackIndexUsed>>
    /\ trackIndex' = trackIndex + 1
    /\ StartOfTrack
    /\ UNCHANGED <<pc, error, tracksCount, reader, events, midiFile, tempoTracks, tracks, stats>>

\* After the last event of a track: the track is kept if notesUsed is not
\* empty, and the loop goes on to the next track.
EndOfTrack ==
    /\ pc = "assemble"
    /\ trackIndex < Len(fileTracks)
    /\ eventIndex > Len(fileTracks[trackIndex + 1])
    /\ IF notesUsed # <<>>
       THEN /\ workingTracks' = Append(workingTracks,
                  MIDITrack(trackName, trackIndexUsed, minNote, maxNote, notes, notesUsed))
            /\ origin' = Append(origin, FilePosition)
            /\ trackIndexUsed' = trackIndexUsed + 1
       ELSE UNCHANGED <<workingTracks, origin, trackIndexUsed>>
    /\ trackIndex' = trackIndex + 1
    /\ StartOfTrack
    /\ UNCHANGED <<pc, error, tracksCount, reader, events, midiFile, tempoTracks, tracks, stats>>

\* NotesOfChannel putting each note before the ones found so far.
RECURSIVE NotesOfChannel_Reversed(_, _)
NotesOfChannel_Reversed(ns, channel) ==
    IF ns = <<>> THEN <<>>
    ELSE IF Head(ns).channel = channel
    THEN NotesOfChannel_Reversed(Tail(ns), channel) \o <<Head(ns)>>
    ELSE NotesOfChannel_Reversed(Tail(ns), channel)

\* The notes of ns on the channel, in order.
RECURSIVE NotesOfChannel(_, _)
NotesOfChannel(ns, channel) ==
    IF ns = <<>> THEN <<>>
    ELSE IF Head(ns).channel = channel
    THEN <<Head(ns)>> \o NotesOfChannel(Tail(ns), channel)
    ELSE NotesOfChannel(Tail(ns), channel)

\* minNote, maxNote and notesUsed after the loop over the notes ns.
RECURSIVE NoteRange(_, _)
NoteRange(ns, acc) ==
    IF ns = <<>> THEN acc
    ELSE NoteRange(Tail(ns),
             [minNote |-> Min(acc.minNote, Head(ns).noteNumber),
              maxNote |-> Max(acc.maxNote, Head(ns).noteNumber),
              notesUsed |-> IF InList(Head(ns).noteNumber, acc.notesUsed) THEN acc.notesUsed
                            ELSE Append(acc.notesUsed, Head(ns).noteNumber)])

\* The loop over range(16) of the format 0 explosion, from channel on, out being
\* the tracks made so far (trackIndexUsed is their number).
RECURSIVE ExplodeLoop(_, _, _)
ExplodeLoop(first, channel, out) ==
    IF channel >= 16 THEN out
    ELSE LET ns == NotesOfChannel(first.notes, channel)
             r == NoteRange(ns, [minNote |-> 1000, maxNote |-> 0, notesUsed |-> <<>>])
         IN  ExplodeLoop(first, channel + 1,
                 IF r.notesUsed # <<>>
                 THEN Append(out, MIDITrack(<<first.name, "-ch", channel>>, Len(out),
                                            r.minNote, r.maxNote, ns, r.notesUsed))
                 ELSE out)

\* After the loop over fileTracks, format 0: the channels of workingTracks[0]
\* become the tracks; workingTracks[0] raises IndexError when no track was kept.
Explode ==
    /\ pc = "assemble"
    /\ trackIndex >= Len(fileTracks)
    /\ midiFile.midiFormat = 0
    /\ IF workingTracks = <<>>
       THEN /\ pc' = "error"
            /\ error' = "IndexError"
            /\ UNCHANGED <<tracks, origin, trackIndexUsed>>
       ELSE /\ tracks' = ExplodeLoop(workingTracks[1], 0, <<>>)
            /\ trackIndexUsed' = Len(tracks')
            /\ origin' = [i \in 1..Len(tracks') |-> origin[1]]
            /\ pc' = "done"
            /\ UNCHANGED error
    /\ UNCHANGED <<tracksCount, reader, events, midiFile, tempoTracks, workingTracks,
                   trackIndex, eventIndex, locals, stats>>

\* After the loop over fileTracks, formats 1 and 2: tracks = workingTracks.
ReturnTracks ==
    /\ pc = "assemble"
    /\ trackIndex >= Len(fileTracks)
    /\ midiFile.midiFormat # 0
    /\ tracks' = workingTracks
    /\ pc' = "done"
    /\ UNCHANGED <<error, tracksCount, reader, events, midiFile, tempoTracks, workingTracks, origin,
                   trackIndexUsed, trackIndex, eventIndex, locals, stats>>

Next ==
    \/ ParseEvent
    \/ ParseEndOfTrack
    \/ BuildTempoMap
    \/ SetTempo
    \/ OnTrackName
    \/ OnNoteOn
    \/ OnNoteOff
    \/ OnOtherEvent
    \/ EndOfTrack
    \/ Explode
    \/ ReturnTracks

Spec == Init /\ [][Next]_vars

(***************************************************************************)
(* The files of one track, format 0 or 2, that start with Tempo(500000)    *)
(* and go on with note events of several keys.                             *)
(***************************************************************************)
InitKeys ==
    /\ tracksCount = 1
    /\ pc = "parse"
    /\ error = "none"
    /\ memoryMap = <<>>
    /\ position = 0
    /\ parseState = MidiParseState
    /\ events = <<TempoEvent(0, 500000)>>
    /\ midiFile \in [midiFormat : {0, 2}, ppqn : PPQNs, tempo : {-1}, tracks : {<<>>}]
    /\ tempoTracks = <<>>
    /\ workingTracks = <<>>
    /\ origin = <<>>
    /\ trackIndexUsed = 0
    /\ trackIndex = 0
    /\ eventIndex = 1
    /\ notes = <<>>
    /\ notesUsed = <<>>
    /\ trackName = ""
    /\ minNote = 1000
    /\ maxNote = 0
    /\ minDurationInTicks = 1000000
    /\ trackState = TrackState
    /\ tracks = <<>>
    /\ stats = <<>>

\* parseEvents: one more event of the track, as ParseEvent.
ParseKeyEvent ==
    /\ pc = "parse"
    /\ SumLen(midiFile.tracks) + Len(events) + 1 + (tracksCount - Len(midiFile.tracks))
           <= MaxEvents
    /\ \E e \in KeyBodyEvents : events' = Append(events, e)
    /\ UNCHANGED <<pc, error, tracksCount, reader, midiFile, tempoTracks, workingTracks, origin,
                   trackIndexUsed, trackIndex, eventIndex, locals, tracks, stats>>

NextKeys ==
    \/ ParseKeyEvent
    \/ ParseEndOfTrack
    \/ BuildTempoMap
    \/ SetTempo
    \/ OnTrackName
    \/ OnNoteOn
    \/ OnNoteOff
    \/ OnOtherEvent
    \/ EndOfTrack
    \/ Explode
    \/ ReturnTracks

SpecKeys == InitKeys /\ [][NextKeys]_vars

(***************************************************************************)
(* The stream parser, on the bytes of a track chunk.  A read or a parse    *)
(* gives the exception it raises ("none" when it returns), what it returns *)
(* and the position of the cursor afterwards.                              *)
(***************************************************************************)
\* parseEvent returning None: no branch of its dispatch is taken.
None == [type |-> "None"]

\* A channel event that is neither NoteOn nor NoteOff, and a meta or system
\* exclusive event that is none of TrackName, EndOfTrack, Tempo: the class of
\* the event and the bytes it was made from.
ChannelEvent(class, d, c, data) ==
    [type |-> class, deltaTime |-> d, channel |-> c, data |-> data]

DataEvent(class, d, data) ==
    [type |-> class, deltaTime |-> d, data |-> data]

\* struct.unpack of memoryMap.read(n), n bytes being wanted at position p:
\* read returns the bytes that are left when there are fewer, and struct.unpack
\* raises struct.error.
read(mm, p, n) ==
    IF p + n > Len(mm)
    THEN [raised |-> "struct.error", value |-> <<>>, position |-> Len(mm)]
    ELSE [raised |-> "none", value |-> SubSeq(mm, p + 1, p + n), position |-> p + n]

\* The characters of the digits and of the letters of latin-1.
Digits == <<"0", "1", "2", "3", "4", "5", "6", "7", "8", "9">>

Upper ==
    <<"A", "B", "C", "D", "E", "F", "G", "H", "I", "J", "K", "L", "M",
      "N", "O", "P", "Q", "R", "S", "T", "U", "V", "W", "X", "Y", "Z">>

Lower ==
    <<"a", "b", "c", "d", "e", "f", "g", "h", "i", "j", "k", "l", "m",
      "n", "o", "p", "q", "r", "s", "t", "u", "v", "w", "x", "y", "z">>

\* The character of a byte in latin-1, the byte being a space, a digit or a
\* letter of ASCII.
Latin1Char(byte) ==
    CASE byte = 32 -> " "
      [] byte \in 48..57 -> Digits[byte - 47]
      [] byte \in 65..90 -> Upper[byte - 64]
      [] byte \in 97..122 -> Lower[byte - 96]

\* bytes.decode("latin-1")
RECURSIVE Latin1(_)
Latin1(bytes) ==
    IF bytes = <<>> THEN ""
    ELSE Latin1Char(Head(bytes)) \o Latin1(Tail(bytes))

\* unpackVLQ shifting the total by 6 bits, not 7.
RECURSIVE unpackVLQ_Shift6(_, _, _)
unpackVLQ_Shift6(mm, p, total) ==
    IF p >= Len(mm) THEN [raised |-> "struct.error", value |-> total, position |-> Len(mm)]
    ELSE IF mm[p + 1] >= 128 THEN unpackVLQ_Shift6(mm, p + 1, total * 64 + (mm[p + 1] % 128))
    ELSE [raised |-> "none", value |-> total * 64 + mm[p + 1], position |-> p + 1]

\* unpackVLQ, its loop being at position p with the total so far: char is the
\* byte at p, struct.unpack raising struct.error at the end of the buffer.
RECURSIVE unpackVLQ(_, _, _)
unpackVLQ(mm, p, total) ==
    IF p >= Len(mm) THEN [raised |-> "struct.error", value |-> total, position |-> Len(mm)]
    ELSE IF mm[p + 1] >= 128 THEN unpackVLQ(mm, p + 1, total * 128 + (mm[p + 1] % 128))
    ELSE [raised |-> "none", value |-> total * 128 + mm[p + 1], position |-> p + 1]

channelEventByStatus ==
    (128 :> "NoteOff") @@ (144 :> "NoteOn") @@ (160 :> "NotePressure")
    @@ (176 :> "Controller") @@ (192 :> "Program") @@ (208 :> "ChannelPressure")
    @@ (224 :> "PitchBend")

metaEventByType ==
    (0 :> "SequenceNumber") @@ (1 :> "Text") @@ (2 :> "Copyright") @@ (3 :> "TrackName")
    @@ (4 :> "InstrumentName") @@ (5 :> "Lyric") @@ (6 :> "Marker") @@ (7 :> "CuePoint")
    @@ (8 :> "ProgramName") @@ (9 :> "DeviceName") @@ (32 :> "MidiChannelPrefix")
    @@ (33 :> "MidiPort") @@ (47 :> "EndOfTrack") @@ (81 :> "Tempo") @@ (84 :> "SmpteOffset")
    @@ (88 :> "TimeSignature") @@ (89 :> "KeySignature") @@ (127 :> "Sequencer")

\* The bytes fromMemoryMap of a channel event class reads.
ChannelSize(class) ==
    IF class \in {"Program", "ChannelPressure"} THEN 1 ELSE 2

\* The bytes fromMemoryMap of a meta event class reads, length being declared.
MetaSize(class, length) ==
    CASE class = "SequenceNumber" -> 2
      [] class \in {"MidiChannelPrefix", "MidiPort"} -> 1
      [] class = "EndOfTrack" -> 0
      [] class = "Tempo" -> 3
      [] class = "SmpteOffset" -> 5
      [] class = "TimeSignature" -> 4
      [] class = "KeySignature" -> 2
      [] OTHER -> length

\* eventClass.fromMemoryMap(deltaTime, channel, memoryMap), of a channel event class.
ChannelFromMemoryMap(class, deltaTime, channel, mm, p) ==
    LET r == read(mm, p, ChannelSize(class))
    IN  IF r.raised # "none"
        THEN [raised |-> r.raised, event |-> None, position |-> r.position]
        ELSE [raised |-> "none", position |-> r.position,
              event |-> CASE class = "NoteOn" ->
                                 NoteOnEvent(deltaTime, channel, r.value[1], r.value[2])
                          [] class = "NoteOff" ->
                                 NoteOffEvent(deltaTime, channel, r.value[1], r.value[2])
                          [] OTHER -> ChannelEvent(class, deltaTime, channel, r.value)]

\* eventClass.fromMemoryMap(deltaTime, length, memoryMap), of a meta event class.
MetaFromMemoryMap(class, deltaTime, length, mm, p) ==
    LET r == read(mm, p, MetaSize(class, length))
    IN  IF r.raised # "none"
        THEN [raised |-> r.raised, event |-> None, position |-> r.position]
        ELSE [raised |-> "none", position |-> r.position,
              event |-> CASE class = "TrackName" -> TrackNameEvent(deltaTime, Latin1(r.value))
                          [] class = "EndOfTrack" -> EndOfTrackEvent(deltaTime)
                          [] class = "Tempo" ->
                                 TempoEvent(deltaTime,
                                     r.value[1] * 65536 + r.value[2] * 256 + r.value[3])
                          [] OTHER -> DataEvent(class, deltaTime, r.value)]

\* parseChannelEvent returning the event as fromMemoryMap made it.
parseChannelEvent_AsRead(deltaTime, status, mm, p) ==
    LET channel == status % 16
    IN  IF status - channel \notin DOMAIN channelEventByStatus
        THEN [raised |-> "KeyError", event |-> None, position |-> p]
        ELSE ChannelFromMemoryMap(channelEventByStatus[status - channel],
                                  deltaTime, channel, mm, p)

\* parseChannelEvent: channelEventByStatus[status & 0xF0] raises KeyError when
\* the table has no such key.
parseChannelEvent(deltaTime, status, mm, p) ==
    LET channel == status % 16
    IN  IF status - channel \notin DOMAIN channelEventByStatus
        THEN [raised |-> "KeyError", event |-> None, position |-> p]
        ELSE LET r == ChannelFromMemoryMap(channelEventByStatus[status - channel],
                                           deltaTime, channel, mm, p)
             IN  IF r.raised = "none" /\ r.event.type = "NoteOn" /\ r.event.velocity = 0
                 THEN [r EXCEPT !.event = NoteOffEvent(deltaTime, channel, r.event.note, 0)]
                 ELSE r

\* parseMetaEvent: metaEventByType[eventType] raises KeyError when the table
\* has no such key, the length being read already.
parseMetaEvent(deltaTime, mm, p) ==
    LET eventType == read(mm, p, 1)
        length == unpackVLQ(mm, eventType.position, 0)
    IN  IF eventType.raised # "none"
        THEN [raised |-> eventType.raised, event |-> None, position |-> eventType.position]
        ELSE IF length.raised # "none"
        THEN [raised |-> length.raised, event |-> None, position |-> length.position]
        ELSE IF eventType.value[1] \notin DOMAIN metaEventByType
        THEN [raised |-> "KeyError", event |-> None, position |-> length.position]
        ELSE MetaFromMemoryMap(metaEventByType[eventType.value[1]], deltaTime,
                               length.value, mm, length.position)

\* parseSysExEvent, status being 0xF0 or 0xF7.
parseSysExEvent(deltaTime, status, mm, p) ==
    LET length == unpackVLQ(mm, p, 0)
        data == read(mm, length.position, length.value)
    IN  IF length.raised # "none"
        THEN [raised |-> length.raised, event |-> None, position |-> length.position]
        ELSE IF data.raised # "none"
        THEN [raised |-> data.raised, event |-> None, position |-> data.position]
        ELSE [raised |-> "none", position |-> data.position,
              event |-> DataEvent(IF status = 240 THEN "SysEx" ELSE "EscapeSequence",
                                  deltaTime, data.value)]

\* The one element of the set S: The({f(x) : x \in {e}}) is f(e), e being
\* evaluated once, as a statement x = e followed by the use of x.
The(S) == CHOOSE x \in S : TRUE

\* parseEvent that takes every byte after the delta time for a status byte.
parseEvent_NoRunningStatus(mm, p, ps) ==
    The({IF deltaTime.raised # "none"
         THEN [raised |-> deltaTime.raised, event |-> None,
               position |-> deltaTime.position, parseState |-> ps]
         ELSE The({IF status.raised # "none"
                   THEN [raised |-> status.raised, event |-> None,
                         position |-> status.position, parseState |-> ps]
                   ELSE LET ps2 == [ps EXCEPT !.runningStatus = status.value[1]]
                            q == status.position
                            runningStatus == ps2.runningStatus
                        IN  The({[raised |-> r.raised, event |-> r.event,
                                  position |-> r.position, parseState |-> ps2] :
                                 r \in {IF runningStatus = 255
                                        THEN parseMetaEvent(deltaTime.value, mm, q)
                                        ELSE IF runningStatus = 240 \/ runningStatus = 247
                                        THEN parseSysExEvent(deltaTime.value, runningStatus, mm, q)
                                        ELSE IF runningStatus >= 128
                                        THEN parseChannelEvent(deltaTime.value, runningStatus,
                                                               mm, q)
                                        ELSE [raised |-> "none", event |-> None,
                                              position |-> q]}}) :
                   status \in {read(mm, deltaTime.position, 1)}}) :
         deltaTime \in {unpackVLQ(mm, p, 0)}})

\* parseEvent rewinding the cursor to where the call found it when no branch of
\* the dispatch is taken.
parseEvent_RewindAll(mm, p, ps) ==
    The({IF deltaTime.raised # "none"
         THEN [raised |-> deltaTime.raised, event |-> None,
               position |-> deltaTime.position, parseState |-> ps]
         ELSE The({IF status.raised # "none"
                   THEN [raised |-> status.raised, event |-> None,
                         position |-> status.position, parseState |-> ps]
                   ELSE LET ps2 == IF status.value[1] >= 128
                                   THEN [ps EXCEPT !.runningStatus = status.value[1]]
                                   ELSE ps
                            q == IF status.value[1] >= 128 THEN status.position
                                 ELSE status.position - 1
                            runningStatus == ps2.runningStatus
                        IN  The({[raised |-> r.raised, event |-> r.event,
                                  position |-> r.position, parseState |-> ps2] :
                                 r \in {IF runningStatus = 255
                                        THEN parseMetaEvent(deltaTime.value, mm, q)
                                        ELSE IF runningStatus = 240 \/ runningStatus = 247
                                        THEN parseSysExEvent(deltaTime.value, runningStatus, mm, q)
                                        ELSE IF runningStatus >= 128
                                        THEN parseChannelEvent(deltaTime.value, runningStatus,
                                                               mm, q)
                                        ELSE [raised |-> "none", event |-> None,
                                              position |-> p]}}) :
                   status \in {read(mm, deltaTime.position, 1)}}) :
         deltaTime \in {unpackVLQ(mm, p, 0)}})

\* parseEvent(memoryMap, parseState), the cursor being at position p: what it
\* raises or returns, where it leaves the cursor, and the parseState it leaves.
\* deltaTime and status are the results of its two reads, ps2 the parseState and q
\* the cursor after the test of the status byte.
parseEvent(mm, p, ps) ==
    The({IF deltaTime.raised # "none"
         THEN [raised |-> deltaTime.raised, event |-> None,
               position |-> deltaTime.position, parseState |-> ps]
         ELSE The({IF status.raised # "none"
                   THEN [raised |-> status.raised, event |-> None,
                         position |-> status.position, parseState |-> ps]
                   ELSE LET ps2 == IF status.value[1] >= 128
                                   THEN [ps EXCEPT !.runningStatus = status.value[1]]
                                   ELSE ps
                            q == IF status.value[1] >= 128 THEN status.position
                                 ELSE status.position - 1
                            runningStatus == ps2.runningStatus
                        IN  The({[raised |-> r.raised, event |-> r.event,
                                  position |-> r.position, parseState |-> ps2] :
                                 r \in {IF runningStatus = 255
                                        THEN parseMetaEvent(deltaTime.value, mm, q)
                                        ELSE IF runningStatus = 240 \/ runningStatus = 247
                                        THEN parseSysExEvent(deltaTime.value, runningStatus, mm, q)
                                        ELSE IF runningStatus >= 128
                                        THEN parseChannelEvent(deltaTime.value, runningStatus,
                                                               mm, q)
                                        ELSE [raised |-> "none", event |-> None,
                                              position |-> q]}}) :
                   status \in {read(mm, deltaTime.position, 1)}}) :
         deltaTime \in {unpackVLQ(mm, p, 0)}})

(***************************************************************************)
(* The files of one track chunk, format 0 or 2, given by the bytes of the  *)
(* chunk after its header: up to MaxChunks pieces, each the bytes of an    *)
(* event or of something like one, the last byte of the file being there   *)
(* or not.  readMIDIFile goes on from the events parsed.                   *)
(***************************************************************************)
Chunks ==
    { <<0, 144, 60, 100>>,              \* NoteOn(ch 0, 60, 100)
      <<0, 64, 100>>,                   \* no status byte: 64, 100
      <<131, 96, 60, 0>>,               \* 480 ticks later, no status byte: 60, 0
      <<0, 128, 64, 0>>,                \* NoteOff(ch 0, 64, 0)
      <<0, 255, 81, 3, 7, 161, 32>>,    \* Tempo(500000)
      <<0, 255, 3, 1, 80>>,             \* TrackName("P")
      <<0, 255, 47, 0>>,                \* EndOfTrack
      <<0, 255, 10, 1, 0>>,             \* a meta event of type 0x0A, of one byte
      <<0, 241>>,                       \* the status byte 0xF1
      <<0, 240, 1, 1>>,                 \* SysEx of one byte
      <<128, 128, 128, 128, 128, 0, 144, 60, 100>> }
                                        \* a delta time of six bytes, then NoteOn

\* The concatenations of n chunks or fewer.
RECURSIVE ChunkSeqs(_)
ChunkSeqs(n) ==
    IF n = 0 THEN {<<>>}
    ELSE {b \o c : b \in ChunkSeqs(n - 1), c \in Chunks \cup {<<>>}}

\* Each concatenation of n chunks or fewer, whole or cut before its last byte.
Buffers(n) ==
    {SubSeq(b, 1, Len(b) - cut) : b \in ChunkSeqs(n), cut \in {0, 1}}

InitBytes ==
    /\ tracksCount = 1
    /\ pc = "parse"
    /\ error = "none"
    /\ memoryMap \in Buffers(MaxChunks)
    /\ position = 0
    /\ parseState = MidiParseState
    /\ events = <<>>
    /\ midiFile \in [midiFormat : {0, 2}, ppqn : PPQNs, tempo : {-1}, tracks : {<<>>}]
    /\ tempoTracks = <<>>
    /\ workingTracks = <<>>
    /\ origin = <<>>
    /\ trackIndexUsed = 0
    /\ trackIndex = 0
    /\ eventIndex = 1
    /\ notes = <<>>
    /\ notesUsed = <<>>
    /\ trackName = ""
    /\ minNote = 1000
    /\ maxNote = 0
    /\ minDurationInTicks = 1000000
    /\ trackState = TrackState
    /\ tracks = <<>>
    /\ stats = <<>>

\* parseEvents without the break: the loop goes on after an EndOfTrackEvent.
parseEvents_NoBreak ==
    /\ pc = "parse"
    /\ \E r \in {parseEvent(memoryMap, position, parseState)} :
           /\ position' = r.position
           /\ parseState' = r.parseState
           /\ IF r.raised # "none"
              THEN /\ pc' = "error"
                   /\ error' = r.raised
                   /\ UNCHANGED <<events, midiFile>>
              ELSE /\ events' = Append(events, r.event)
                   /\ UNCHANGED <<pc, error, midiFile>>
    /\ UNCHANGED <<tracksCount, memoryMap, tempoTracks, workingTracks, origin,
                   trackIndexUsed, trackIndex, eventIndex, locals, tracks, stats>>

\* One iteration of the loop of parseEvents: parseEvent, events.append(event),
\* and the break on an EndOfTrackEvent, after which the one track of the file
\* is parsed and fromFile returns.
parseEvents ==
    /\ pc = "parse"
    /\ \E r \in {parseEvent(memoryMap, position, parseState)} :
           /\ position' = r.position
           /\ parseState' = r.parseState
           /\ IF r.raised # "none"
              THEN /\ pc' = "error"
                   /\ error' = r.raised
                   /\ UNCHANGED <<events, midiFile>>
              ELSE IF r.event.type = "EndOfTrack"
              THEN /\ midiFile' = [midiFile EXCEPT !.tracks = Append(@, Append(events, r.event))]
                   /\ events' = <<>>
                   /\ pc' = "tempoMap"
                   /\ UNCHANGED error
              ELSE /\ events' = Append(events, r.event)
                   /\ UNCHANGED <<pc, error, midiFile>>
    /\ UNCHANGED <<tracksCount, memoryMap, tempoTracks, workingTracks, origin,
                   trackIndexUsed, trackIndex, eventIndex, locals, tracks, stats>>

NextBytes ==
    \/ parseEvents
    \/ BuildTempoMap
    \/ SetTempo
    \/ OnTrackName
    \/ OnNoteOn
    \/ OnNoteOff
    \/ OnOtherEvent
    \/ EndOfTrack
    \/ Explode
    \/ ReturnTracks

SpecBytes == InitBytes /\ [][NextBytes]_vars

(***************************************************************************)
(* The parser alone, from the opening of the file: fromFile maps the file, *)
(* whose track chunk holds any of the buffers above, and parseEvents runs  *)
(* on it as long as it can.                                                *)
(***************************************************************************)
InitParse ==
    /\ tracksCount = 1
    /\ pc = "open"
    /\ error = "none"
    /\ memoryMap = <<>>
    /\ position = 0
    /\ parseState = MidiParseState
    /\ events = <<>>
    /\ midiFile = [midiFormat |-> 0, ppqn |-> 480, tempo |-> -1, tracks |-> <<>>]
    /\ tempoTracks = <<>>
    /\ workingTracks = <<>>
    /\ origin = <<>>
    /\ trackIndexUsed = 0
    /\ trackIndex = 0
    /\ eventIndex = 1
    /\ notes = <<>>
    /\ notesUsed = <<>>
    /\ trackName = ""
    /\ minNote = 1000
    /\ maxNote = 0
    /\ minDurationInTicks = 1000000
    /\ trackState = TrackState
    /\ tracks = <<>>
    /\ stats = <<>>

\* The contents a file's track chunk is drawn from.
FileBuffers == Buffers(MaxChunks)

\* memoryMap = mmap.mmap(f.fileno(), 0, access = mmap.ACCESS_READ), the headers
\* of the file and of its track chunk being read.
fromFile ==
    /\ pc = "open"
    /\ memoryMap' \in FileBuffers
    /\ pc' = "parse"
    /\ UNCHANGED <<error, tracksCount, position, parseState, events, midiFile, tempoTracks,
                   workingTracks, origin, trackIndexUsed, trackIndex, eventIndex, locals,
                   tracks, stats>>

NextParse ==
    \/ fromFile
    \/ parseEvents

SpecParse == InitParse /\ [][NextParse]_vars

FairSpecParse == SpecParse /\ WF_vars(NextParse)

(***************************************************************************)
(* The track chunks that start with the variable-length quantity of a      *)
(* value, as the MIDI file format encodes it, and go on with an event.     *)
(* Only the parser runs on them.                                           *)
(***************************************************************************)
\* The bytes of the variable-length quantity of h, all with the high bit set.
RECURSIVE EncodeHigh(_)
EncodeHigh(h) ==
    IF h = 0 THEN <<>> ELSE EncodeHigh(h \div 128) \o <<128 + (h % 128)>>

\* The variable-length quantity of v: its bits by groups of seven, the most
\* significant group first, the high bit set on every byte but the last.
EncodeVLQ(v) == EncodeHigh(v \div 128) \o <<v % 128>>

\* The values encoded: around each power of two up to 2^MaxBits, and 300 more
\* spread over 0..2^MaxBits.
VLQValues ==
    {v \in UNION {{2^k - 1, 2^k, 2^k + 1} : k \in 0..MaxBits} : v <= 2^MaxBits}
    \cup {(k * 2796203) % (2^MaxBits + 1) : k \in 0..299}

\* What follows the delta time: an EndOfTrack event, or a NoteOn event and an
\* EndOfTrack event.
VLQTails == {<<255, 47, 0>>, <<144, 60, 100, 0, 255, 47, 0>>}

InitVLQ ==
    /\ tracksCount = 1
    /\ pc = "parse"
    /\ error = "none"
    /\ memoryMap \in {EncodeVLQ(v) \o t : v \in VLQValues, t \in VLQTails}
    /\ position = 0
    /\ parseState = MidiParseState
    /\ events = <<>>
    /\ midiFile \in [midiFormat : {0}, ppqn : PPQNs, tempo : {-1}, tracks : {<<>>}]
    /\ tempoTracks = <<>>
    /\ workingTracks = <<>>
    /\ origin = <<>>
    /\ trackIndexUsed = 0
    /\ trackIndex = 0
    /\ eventIndex = 1
    /\ notes = <<>>
    /\ notesUsed = <<>>
    /\ trackName = ""
    /\ minNote = 1000
    /\ maxNote = 0
    /\ minDurationInTicks = 1000000
    /\ trackState = TrackState
    /\ tracks = <<>>
    /\ stats = <<>>

NextVLQ == parseEvents

SpecVLQ == InitVLQ /\ [][NextVLQ]_vars

(***************************************************************************)
(* The files of one track chunk, format 0 or 2, whose bytes are those of a *)
(* Tempo event, of up to MaxNoteChunks events, each named below, and of an *)
(* EndOfTrack event.  Some data bytes have the high bit set.               *)
(***************************************************************************)
NoteChunks ==
    { <<0, 144, 60, 100>>,      \* NoteOn(ch 0, 60, 100)
      <<0, 144, 200, 255>>,     \* NoteOn(ch 0, 200, 255)
      <<0, 159, 60, 100>>,      \* NoteOn(ch 15, 60, 100)
      <<96, 128, 60, 0>>,       \* 96 ticks later, NoteOff(ch 0, 60, 0)
      <<96, 128, 200, 0>>,      \* 96 ticks later, NoteOff(ch 0, 200, 0)
      <<96, 143, 60, 0>>,       \* 96 ticks later, NoteOff(ch 15, 60, 0)
      <<0, 255, 3, 1, 80>>,     \* TrackName("P")
      <<0, 255, 3, 1, 81>> }    \* TrackName("Q")

\* The concatenations of n of these chunks or fewer.
RECURSIVE NoteChunkSeqs(_)
NoteChunkSeqs(n) ==
    IF n = 0 THEN {<<>>}
    ELSE {b \o c : b \in NoteChunkSeqs(n - 1), c \in NoteChunks \cup {<<>>}}

\* A Tempo event, n of the chunks or fewer, an EndOfTrack event.
NoteBuffers(n) ==
    {<<0, 255, 81, 3, 7, 161, 32>> \o b \o <<0, 255, 47, 0>> : b \in NoteChunkSeqs(n)}

InitNotes ==
    /\ tracksCount = 1
    /\ pc = "parse"
    /\ error = "none"
    /\ memoryMap \in NoteBuffers(MaxNoteChunks)
    /\ position = 0
    /\ parseState = MidiParseState
    /\ events = <<>>
    /\ midiFile \in [midiFormat : {0, 2}, ppqn : PPQNs, tempo : {-1}, tracks : {<<>>}]
    /\ tempoTracks = <<>>
    /\ workingTracks = <<>>
    /\ origin = <<>>
    /\ trackIndexUsed = 0
    /\ trackIndex = 0
    /\ eventIndex = 1
    /\ notes = <<>>
    /\ notesUsed = <<>>
    /\ trackName = ""
    /\ minNote = 1000
    /\ maxNote = 0
    /\ minDurationInTicks = 1000000
    /\ trackState = TrackState
    /\ tracks = <<>>
    /\ stats = <<>>

NextNotes ==
    \/ parseEvents
    \/ BuildTempoMap
    \/ SetTempo
    \/ OnTrackName
    \/ OnNoteOn
    \/ OnNoteOff
    \/ OnOtherEvent
    \/ EndOfTrack
    \/ Explode
    \/ ReturnTracks

SpecNotes == InitNotes /\ [][NextNotes]_vars

(***************************************************************************)
(* The files given by up to MaxRuns runs of note events, fromFile having   *)
(* returned.  A format 1 file has a tempo track and one track per run; a   *)
(* format 0 or 2 file has one track, a Tempo event followed by the runs.   *)
(***************************************************************************)
NoteRuns ==
    { <<>>,
      <<NoteOnEvent(0, 0, 60, 64), NoteOffEvent(240, 0, 60, 0)>>,
      <<TrackNameEvent(0, "Piano"), NoteOnEvent(0, 1, 62, 100), NoteOffEvent(240, 1, 62, 0)>>,
      <<NoteOnEvent(0, 15, 60, 64), NoteOnEvent(240, 1, 64, 100),
        NoteOffEvent(240, 1, 64, 0), NoteOffEvent(240, 15, 60, 0)>>,
      <<NoteOnEvent(240, 0, 64, 100)>> }

\* The sequences of n runs.
RECURSIVE RunSeqs(_)
RunSeqs(n) ==
    IF n = 0 THEN {<<>>}
    ELSE {Append(b, c) : b \in RunSeqs(n - 1), c \in NoteRuns}

\* The events of the runs rs, one after the other.
RECURSIVE Concat(_)
Concat(rs) == IF rs = <<>> THEN <<>> ELSE Head(rs) \o Concat(Tail(rs))

\* The tracks of the file of the format made of the runs rs.
RunTracks(midiFormat, rs) ==
    IF midiFormat = 1
    THEN << <<TempoEvent(0, 500000), EndOfTrackEvent(0)>> >>
         \o [i \in 1..Len(rs) |-> Append(rs[i], EndOfTrackEvent(0))]
    ELSE << <<TempoEvent(0, 500000)>> \o Concat(rs) \o <<EndOfTrackEvent(0)>> >>

InitRuns ==
    /\ \E f \in Formats : \E rs \in UNION {RunSeqs(n) : n \in 0..MaxRuns} :
           /\ midiFile = [midiFormat |-> f, ppqn |-> 480, tempo |-> -1,
                          tracks |-> RunTracks(f, rs)]
           /\ tracksCount = Len(RunTracks(f, rs))
    /\ pc = "tempoMap"
    /\ error = "none"
    /\ memoryMap = <<>>
    /\ position = 0
    /\ parseState = MidiParseState
    /\ events = <<>>
    /\ tempoTracks = <<>>
    /\ workingTracks = <<>>
    /\ origin = <<>>
    /\ trackIndexUsed = 0
    /\ trackIndex = 0
    /\ eventIndex = 1
    /\ notes = <<>>
    /\ notesUsed = <<>>
    /\ trackName = ""
    /\ minNote = 1000
    /\ maxNote = 0
    /\ minDurationInTicks = 1000000
    /\ trackState = TrackState
    /\ tracks = <<>>
    /\ stats = <<>>

NextRuns ==
    \/ BuildTempoMap
    \/ SetTempo
    \/ OnTrackName
    \/ OnNoteOn
    \/ OnNoteOff
    \/ OnOtherEvent
    \/ EndOfTrack
    \/ Explode
    \/ ReturnTracks

SpecRuns == InitRuns /\ [][NextRuns]_vars

(***************************************************************************)
(* The track chunks of up to MaxMetaChunks meta events and an EndOfTrack   *)
(* event, the length a meta event declares being the number of bytes its   *)
(* class reads or not.  Only the parser runs on them.                      *)
(***************************************************************************)
MetaChunks ==
    { <<0, 255, 0, 2, 0, 1>>,              \* SequenceNumber, 2 bytes declared
      <<0, 255, 1, 1, 80>>,                \* Text("P")
      <<0, 255, 1, 0>>,                    \* Text("")
      <<0, 255, 32, 1, 0>>,                \* MidiChannelPrefix, 1 byte declared
      <<0, 255, 33, 1, 0>>,                \* MidiPort, 1 byte declared
      <<0, 255, 81, 3, 7, 161, 32>>,       \* Tempo, 3 bytes declared
      <<0, 255, 81, 4, 7, 161, 32, 0>>,    \* Tempo, 4 bytes declared
      <<0, 255, 84, 5, 0, 0, 0, 0, 0>>,    \* SmpteOffset, 5 bytes declared
      <<0, 255, 88, 4, 4, 2, 24, 8>>,      \* TimeSignature, 4 bytes declared
      <<0, 255, 88, 2, 4, 2>>,             \* TimeSignature, 2 bytes declared
      <<0, 255, 89, 2, 0, 0>>,             \* KeySignature, 2 bytes declared
      <<0, 255, 127, 1, 0>>,               \* Sequencer, 1 byte declared
      <<0, 255, 47, 1, 0>> }               \* EndOfTrack, 1 byte declared

\* The concatenations of n of these chunks or fewer.
RECURSIVE MetaChunkSeqs(_)
MetaChunkSeqs(n) ==
    IF n = 0 THEN {<<>>}
    ELSE {b \o c : b \in MetaChunkSeqs(n - 1), c \in MetaChunks \cup {<<>>}}

\* n of the chunks or fewer, then an EndOfTrack event that declares no byte.
MetaBuffers(n) ==
    {b \o <<0, 255, 47, 0>> : b \in MetaChunkSeqs(n)}

InitMeta ==
    /\ tracksCount = 1
    /\ pc = "parse"
    /\ error = "none"
    /\ memoryMap \in MetaBuffers(MaxMetaChunks)
    /\ position = 0
    /\ parseState = MidiParseState
    /\ events = <<>>
    /\ midiFile \in [midiFormat : {0}, ppqn : PPQNs, tempo : {-1}, tracks : {<<>>}]
    /\ tempoTracks = <<>>
    /\ workingTracks = <<>>
    /\ origin = <<>>
    /\ trackIndexUsed = 0
    /\ trackIndex = 0
    /\ eventIndex = 1
    /\ notes = <<>>
    /\ notesUsed = <<>>
    /\ trackName = ""
    /\ minNote = 1000
    /\ maxNote = 0
    /\ minDurationInTicks = 1000000
    /\ trackState = TrackState
    /\ tracks = <<>>
    /\ stats = <<>>

NextMeta == parseEvents

SpecMeta == InitMeta /\ [][NextMeta]_vars

(***************************************************************************)
(* determineGlobalRanges (src/utils/stuff.py), called on the tracks that   *)
(* readMIDIFile returned for the files given by runs.  Its timeMin starts  *)
(* at 1000 seconds, which is more than any time of the model (a time is    *)
(* below 2^31 units, and a second is ppqn * 1000000 units): timeMin is     *)
(* kept as <<>> while it is 1000, and as <<t>> once it is the time t.      *)
(***************************************************************************)
\* min(stats['timeMin'], t), t being below 1000 seconds.
MinTime(timeMin, t) == IF timeMin = <<>> THEN <<t>> ELSE <<Min(timeMin[1], t)>>

\* The loop over the tracks ts from track k on: track.notes[0] raises IndexError
\* when the track has no note.
RECURSIVE RangesLoop(_, _, _)
RangesLoop(ts, k, st) ==
    IF k > Len(ts) THEN [raised |-> "none", stats |-> st]
    ELSE IF ts[k].notes = <<>> THEN [raised |-> "IndexError", stats |-> st]
    ELSE RangesLoop(ts, k + 1,
             [noteMin |-> Min(st.noteMin, ts[k].minNote),
              noteMax |-> Max(st.noteMax, ts[k].maxNote),
              timeMin |-> MinTime(st.timeMin, ts[k].notes[1].timeOn),
              timeMax |-> Max(st.timeMax, ts[k].notes[Len(ts[k].notes)].timeOff),
              noteMidRange |-> st.noteMidRange])

\* determineGlobalRanges on the tracks returned; noteMidRange is the fraction
\* noteMin + (noteMax - noteMin) / 2, in halves.
determineGlobalRanges ==
    /\ pc = "done"
    /\ LET r == RangesLoop(tracks, 1, [noteMin |-> 1000, noteMax |-> 0, timeMin |-> <<>>,
                                       timeMax |-> 0, noteMidRange |-> <<0, 2>>])
       IN  IF r.raised # "none"
           THEN /\ pc' = "error"
                /\ error' = r.raised
                /\ UNCHANGED stats
           ELSE /\ stats' = [r.stats EXCEPT !.noteMidRange =
                                <<2 * r.stats.noteMin + (r.stats.noteMax - r.stats.noteMin), 2>>]
                /\ pc' = "ranges"
                /\ UNCHANGED error
    /\ UNCHANGED <<tracksCount, reader, events, midiFile, tempoTracks, workingTracks, origin,
                   trackIndexUsed, trackIndex, eventIndex, locals, tracks>>

NextRanges ==
    \/ BuildTempoMap
    \/ SetTempo
    \/ OnTrackName
    \/ OnNoteOn
    \/ OnNoteOff
    \/ OnOtherEvent
    \/ EndOfTrack
    \/ Explode
    \/ ReturnTracks
    \/ determineGlobalRanges

SpecRanges == InitRuns /\ [][NextRanges]_vars

(***************************************************************************)
(* What the properties below speak of.                                     *)
(***************************************************************************)
\* fromFile has returned: every track chunk of the file is parsed.
Parsed == pc # "parse"

\* The TempoMap is built.
TempoMapBuilt == tempoTracks # <<>>

\* One second, in the unit of the times of the model.
OneSecond == midiFile.ppqn * 1000000

\* The ticks at which timeInTicksToSeconds is probed.
ProbeTicks == {240 * t : t \in 0..(2 * MaxEvents)}

\* The track indexes readMIDIFile and computeTempoTracks may hand to the TempoMap.
TrackIndexes == 0..Max(Len(midiFile.tracks) - 1, 0)

HasType(evs, type) == \E i \in 1..Len(evs) : evs[i].type = type

KeyOf(e) == <<e.channel, e.note>>

\* Event i of evs is a NoteOn or a NoteOff of the key.
IsKeyEvent(evs, i, key) ==
    /\ evs[i].type \in {"NoteOn", "NoteOff"}
    /\ KeyOf(evs[i]) = key

\* The NoteOn events less the NoteOff events of the key among the first n events.
Depth(evs, n, key) ==
    Cardinality({i \in 1..n : IsKeyEvent(evs, i, key) /\ evs[i].type = "NoteOn"})
    - Cardinality({i \in 1..n : IsKeyEvent(evs, i, key) /\ evs[i].type = "NoteOff"})

\* No NoteOff of evs comes without an open NoteOn of its key.
OrphanFree(evs) ==
    \A n \in 1..Len(evs) :
        evs[n].type = "NoteOff" => Depth(evs, n, KeyOf(evs[n])) >= 0

\* The time in ticks of event i of evs.
RECURSIVE TicksAt(_, _)
TicksAt(evs, i) == IF i = 0 THEN 0 ELSE TicksAt(evs, i - 1) + evs[i].deltaTime

\* Every note the assembler has emitted so far.
EmittedNotes ==
    {notes[i] : i \in 1..Len(notes)}
    \cup UNION {{workingTracks[t].notes[i] : i \in 1..Len(workingTracks[t].notes)} :
                t \in 1..Len(workingTracks)}
    \cup UNION {{tracks[t].notes[i] : i \in 1..Len(tracks[t].notes)} : t \in 1..Len(tracks)}

(***************************************************************************)
(* C1.  The end-to-end scenario.                                           *)
(***************************************************************************)
C1_Tracks ==
    << <<TempoEvent(0, 500000), NoteOnEvent(0, 0, 60, 64), NoteOffEvent(480, 0, 60, 0),
         EndOfTrackEvent(0)>> >>

C1_File ==
    /\ Parsed
    /\ midiFile.midiFormat = 0
    /\ midiFile.ppqn = 480
    /\ midiFile.tracks = C1_Tracks

\* C1 as amended: for the format 0 file with ppqn 480 and the one track Tempo(500000)
\* at tick 0, NoteOn(0, 60, 64) at tick 0, NoteOff(0, 60) at tick 480, EndOfTrack,
\* readMIDIFile raises nothing and returns exactly one track, holding exactly one
\* note: channel 0, noteNumber 60, timeOn 0, timeOff half a second, velocity 64/127.
C1_EndToEnd ==
    C1_File =>
        /\ error = "none"
        /\ pc = "done" =>
               /\ Len(tracks) = 1
               /\ Len(tracks[1].notes) = 1
               /\ tracks[1].notes[1].channel = 0
               /\ tracks[1].notes[1].noteNumber = 60
               /\ tracks[1].notes[1].timeOn = 0
               /\ 2 * tracks[1].notes[1].timeOff = OneSecond
               /\ tracks[1].notes[1].velocity = <<64, 127>>

C1_Witness == C1_File /\ pc = "done"

\* C1 as stated: the same, with timeOff one second.
C1_Original ==
    (C1_File /\ pc = "done") =>
        /\ Len(tracks) = 1
        /\ tracks[1].notes = <<MIDINote(0, 60, 0, OneSecond, <<64, 127>>)>>

(***************************************************************************)
(* C2.  Stacked NoteOn events.                                             *)
(***************************************************************************)
\* The events of the track the assembler is in.
trackEvents == fileTracks[trackIndex + 1]

\* The seconds of event i of the track the assembler is in.
SecondsAt(i) ==
    timeInTicksToSeconds(tempoTracks, midiFile.midiFormat, trackIndex, TicksAt(trackEvents, i))

\* The last of the first n events of evs after which the key has as many NoteOff
\* as NoteOn events (0 when it is so only at the start of the track).
LastClosed(evs, n, key) ==
    CHOOSE q \in 0..n :
        /\ Depth(evs, q, key) = 0
        /\ \A r \in (q + 1)..n : Depth(evs, r, key) # 0

\* The events of the key among events from..to of evs.
KeyEvents(evs, from, to, key) == {i \in from..to : IsKeyEvent(evs, i, key)}

\* Among events from..to of evs, the NoteOn events of the key all come before
\* its NoteOff events, and there is a NoteOn.
Stacked(evs, from, to, key) ==
    /\ \E i \in KeyEvents(evs, from, to, key) : evs[i].type = "NoteOn"
    /\ \A i, j \in KeyEvents(evs, from, to, key) :
           (evs[i].type = "NoteOff" /\ evs[j].type = "NoteOn") => j < i

\* C2: when the events of a key since it was last closed are k NoteOn events
\* followed by NoteOff events, each of the first k - 1 NoteOff events emits no note,
\* and the k-th emits exactly one, from the time of the first NoteOn to the time of
\* this NoteOff, with the velocity of the first NoteOn.
C2_StackedPairing ==
    [][(AtEvent /\ event.type = "NoteOff"
            /\ Stacked(trackEvents, LastClosed(trackEvents, eventIndex - 1, KeyOf(event)) + 1,
                       eventIndex - 1, KeyOf(event)))
        => LET key == KeyOf(event)
               from == LastClosed(trackEvents, eventIndex - 1, key) + 1
               run == KeyEvents(trackEvents, from, eventIndex - 1, key)
               first == CHOOSE i \in run : \A j \in run : i <= j
           IN  /\ error' = "none"
               /\ IF Depth(trackEvents, eventIndex - 1, key) > 1
                  THEN notes' = notes
                  ELSE notes' = Append(notes,
                           MIDINote(key[1], key[2], SecondsAt(first), SecondsAt(eventIndex),
                                    <<trackEvents[first].velocity, 127>>))]_vars

\* The second NoteOff after two NoteOn events of a key has just emitted the one
\* note, the two NoteOn events differing in time and velocity.
C2_Witness ==
    /\ pc = "assemble"
    /\ trackIndex < Len(fileTracks)
    /\ Len(notes) = 1
    /\ \E a, b, c, d \in 1..Len(trackEvents) :
           /\ a < b /\ b < c /\ c < d /\ d = eventIndex - 1
           /\ trackEvents[a].type = "NoteOn" /\ trackEvents[b].type = "NoteOn"
           /\ trackEvents[c].type = "NoteOff" /\ trackEvents[d].type = "NoteOff"
           /\ KeyEvents(trackEvents, 1, d, KeyOf(trackEvents[d])) = {a, b, c, d}
           /\ trackEvents[a].velocity # trackEvents[b].velocity
           /\ SecondsAt(a) < SecondsAt(b)
           /\ SecondsAt(c) < SecondsAt(d)
           /\ notes[1].timeOn = SecondsAt(a)
           /\ notes[1].timeOff = SecondsAt(d)

(***************************************************************************)
(* C3.  A NoteOff without an open entry.                                   *)
(***************************************************************************)
\* C3 as stated: a NoteOff whose key has no entry in the open-note table emits
\* no note and raises nothing, leaves the table and the notes as they are, and
\* the assembly goes on to the next event.
C3_OrphanNoteOffIgnored ==
    [][(AtEvent /\ event.type = "NoteOff"
            /\ KeyOf(event) \notin DOMAIN trackState.noteOnTable)
        => /\ error' = "none"
           /\ pc' = "assemble"
           /\ notes' = notes
           /\ trackState'.noteOnTable = trackState.noteOnTable
           /\ eventIndex' = eventIndex + 1]_vars

(***************************************************************************)
(* C4.  The times of a note.                                               *)
(***************************************************************************)
\* A NoteOff is about to close the entry of its key on the tick the entry was made.
ZeroLengthClose ==
    /\ AtEvent
    /\ event.type = "NoteOff"
    /\ event.deltaTime = 0
    /\ KeyOf(event) \in DOMAIN trackState.noteOnTable
    /\ trackState.noteOnTable[KeyOf(event)].numberOfNotes = 1
    /\ trackState.noteOnTable[KeyOf(event)].ticks = trackState.timeInTicks

\* C4: every note emitted has timeOff >= timeOn >= 0, and a NoteOff on the tick of
\* its NoteOn emits a note of length zero.
C4_NoteTimes ==
    /\ [](\A n \in EmittedNotes : n.timeOff >= n.timeOn /\ n.timeOn >= 0)
    /\ [][ZeroLengthClose =>
            /\ Len(notes') = Len(notes) + 1
            /\ notes'[Len(notes')].timeOn = notes'[Len(notes')].timeOff]_vars

\* A note of length zero was emitted at a time after 0, the tempo having changed
\* on the tick of its NoteOn.
C4_Witness ==
    /\ TempoMapBuilt
    /\ \E n \in EmittedNotes, i \in 1..Len(tempoTracks[1]) :
           /\ n.timeOff = n.timeOn
           /\ n.timeOn > 0
           /\ i >= 2
           /\ tempoTracks[1][i].timeInSeconds = n.timeOn
           /\ tempoTracks[1][i].tempo # tempoTracks[1][i - 1].tempo

(***************************************************************************)
(* C5.  The default tempo.                                                 *)
(***************************************************************************)
\* The tempo list timeInTicksToSeconds reads for the track index.
ApplicableList(trackIndex_) ==
    IF midiFile.midiFormat = 1 THEN tempoTracks[1] ELSE tempoTracks[trackIndex_ + 1]

\* C5: where the applicable tempo list has no record at or before the tick,
\* timeInTicksToSeconds is tick * 500000 / ppqn / 1000000 seconds, that is
\* tick * 500000 units of 1 / (ppqn * 1000000) second.  (The TempoMap is looked
\* at when it has just been built: it does not change afterwards.)
C5_DefaultTempo ==
    pc = "setTempo" =>
        \A ti \in TrackIndexes, tick \in ProbeTicks :
            (\A i \in 1..Len(ApplicableList(ti)) : ApplicableList(ti)[i].timeInTicks > tick)
            => timeInTicksToSeconds(tempoTracks, midiFile.midiFormat, ti, tick)
                   = tick * 500000

\* The first Tempo event of the tempo track is at tick 480, with a tempo that is
\* not the default: the ticks before it are on the default tempo, and the
\* seconds of its record were computed with it.
C5_Witness ==
    /\ pc = "setTempo"
    /\ tempoTracks[1] # <<>>
    /\ tempoTracks[1][1].timeInTicks = 480
    /\ tempoTracks[1][1].tempo = 250000
    /\ tempoTracks[1][1].timeInSeconds = 480 * 500000

(***************************************************************************)
(* C6.  A file without a Tempo event.                                      *)
(***************************************************************************)
\* The file is well formed and holds a note: one track, or format 1 and two or
\* more; a NoteOn somewhere readMIDIFile looks for notes; no NoteOff without its NoteOn.
WellFormedFile ==
    /\ Parsed
    /\ Len(midiFile.tracks) >= 1
    /\ midiFile.midiFormat # 1 => Len(midiFile.tracks) = 1
    /\ \A t \in 1..Len(midiFile.tracks) : OrphanFree(midiFile.tracks[t])
    /\ \E t \in 1..Len(fileTracks) : HasType(fileTracks[t], "NoteOn")

\* C6 as stated: on a well-formed file without any Tempo event readMIDIFile
\* raises nothing.
C6_NoTempoNoError ==
    (WellFormedFile /\ \A t \in 1..Len(midiFile.tracks) : ~HasType(midiFile.tracks[t], "Tempo"))
        => error = "none"

(***************************************************************************)
(* C7.  timeInTicksToSeconds.                                              *)
(***************************************************************************)
\* The record of the list recorded last among those at or before the tick, the
\* default record when there is none.
Anchor(list, tick) ==
    LET at == {i \in 1..Len(list) : list[i].timeInTicks <= tick}
    IN  IF at = {} THEN TempoEventRecord(0, 0, 500000)
        ELSE list[CHOOSE i \in at : \A j \in at : j <= i]

FromAnchor(list, tick) ==
    LET anchor == Anchor(list, tick)
    IN  anchor.timeInSeconds + (tick - anchor.timeInTicks) * anchor.tempo

\* C7: timeInTicksToSeconds(trackIndex, tick) is anchor.seconds + (tick - anchor.tick)
\* * anchor.tempo / ppqn / 1000000, the anchor being the last recorded record at or
\* before the tick of the applicable list (track 0's for format 1); and the seconds
\* of each record are computed so from the records before it.  It is so of the
\* TempoMap just built, for every track index and probed tick, and of the
\* seconds the assembler gets for every event.
C7_TicksToSeconds ==
    /\ pc = "setTempo" =>
           /\ \A ti \in TrackIndexes, tick \in ProbeTicks :
                  timeInTicksToSeconds(tempoTracks, midiFile.midiFormat, ti, tick)
                      = FromAnchor(ApplicableList(ti), tick)
           /\ \A l \in 1..Len(tempoTracks) : \A i \in 1..Len(tempoTracks[l]) :
                  tempoTracks[l][i].timeInSeconds
                      = FromAnchor(SubSeq(tempoTracks[l], 1, i - 1),
                                   tempoTracks[l][i].timeInTicks)
    /\ (pc = "assemble" /\ trackIndex < Len(fileTracks)) =>
           trackState.timeInSeconds
               = FromAnchor(ApplicableList(trackIndex), trackState.timeInTicks)

\* A format 1 file whose tempo changes at tick 480, the assembler being at tick
\* 480 or later of a note track.
C7_Witness ==
    /\ midiFile.midiFormat = 1
    /\ pc = "assemble"
    /\ trackState.timeInTicks >= 480
    /\ Len(tempoTracks[1]) = 2
    /\ tempoTracks[1][1].timeInTicks = 0
    /\ tempoTracks[1][2].timeInTicks = 480
    /\ tempoTracks[1][1].tempo # tempoTracks[1][2].tempo

(***************************************************************************)
(* C8.  The tempo lists of a format 0 or 2 file of several tracks.         *)
(***************************************************************************)
\* The tempos of the Tempo events of evs, in order.
RECURSIVE TemposOf(_)
TemposOf(evs) ==
    IF evs = <<>> THEN <<>>
    ELSE IF Head(evs).type = "Tempo" THEN <<Head(evs).tempo>> \o TemposOf(Tail(evs))
    ELSE TemposOf(Tail(evs))

\* C8 as stated: for a format 0 or 2 file of two tracks or more the TempoMap is
\* built, with one tempo list per track, list i holding the Tempo events of track i.
C8_TempoListPerTrack ==
    (midiFile.midiFormat # 1 /\ Len(midiFile.tracks) >= 2 /\ pc \notin {"parse", "tempoMap"})
        => /\ error = "none"
           /\ Len(tempoTracks) = Len(midiFile.tracks)
           /\ \A t \in 1..Len(tempoTracks) :
                  [i \in 1..Len(tempoTracks[t]) |-> tempoTracks[t][i].tempo]
                      = TemposOf(midiFile.tracks[t])

(***************************************************************************)
(* C9.  midiFile.tempo.                                                    *)
(***************************************************************************)
\* The tempos of the Tempo events of the whole file.
FileTempos ==
    UNION {{midiFile.tracks[t][i].tempo :
                i \in {j \in 1..Len(midiFile.tracks[t]) : midiFile.tracks[t][j].type = "Tempo"}} :
           t \in 1..Len(midiFile.tracks)}

\* C9 as stated: once readMIDIFile has set it, midiFile.tempo is the tempo of the
\* file when its Tempo events all carry the same value, and 0 when they carry
\* different values.
C9_FixedTempoOrZero ==
    pc \in {"assemble", "done"} =>
        /\ Cardinality(FileTempos) = 1 => midiFile.tempo \in FileTempos
        /\ Cardinality(FileTempos) > 1 => midiFile.tempo = 0

(***************************************************************************)
(* C10.  Tracks without a NoteOn.                                          *)
(***************************************************************************)
\* C10: every track readMIDIFile returns comes from a file track that holds a
\* NoteOn event.
C10_NoNoteOnNoTrack ==
    pc = "done" =>
        \A i \in 1..Len(tracks) : HasType(midiFile.tracks[origin[i]], "NoteOn")

\* readMIDIFile returned a track for a file of which a track it looked at
\* holds no NoteOn.
C10_Witness ==
    /\ pc = "done"
    /\ Len(tracks) >= 1
    /\ \E t \in 1..Len(fileTracks) : ~HasType(fileTracks[t], "NoteOn")

(***************************************************************************)
(* C11.  The notes of the returned tracks.                                 *)
(***************************************************************************)
\* C11 as stated: every track readMIDIFile returns has a note.
C11_TracksHaveNotes ==
    pc = "done" => \A i \in 1..Len(tracks) : tracks[i].notes # <<>>

(***************************************************************************)
(* C12.  Track 0 of a format 1 file.                                       *)
(***************************************************************************)
\* C12: for a format 1 file the assembler never is at an event of file track 0,
\* and no track it keeps or returns comes from file track 0: at most one track
\* is kept per file track after the first.
C12_Format1SkipsTrack0 ==
    (Parsed /\ midiFile.midiFormat = 1) =>
        /\ AtEvent => FilePosition >= 2
        /\ \A i \in 1..Len(origin) : origin[i] >= 2
        /\ Len(workingTracks) <= Max(Len(midiFile.tracks) - 1, 0)
        /\ Len(tracks) <= Max(Len(midiFile.tracks) - 1, 0)

\* readMIDIFile returned a track for a format 1 file whose track 0 holds a
\* NoteOn and a NoteOff.
C12_Witness ==
    /\ pc = "done"
    /\ midiFile.midiFormat = 1
    /\ HasType(midiFile.tracks[1], "NoteOn")
    /\ HasType(midiFile.tracks[1], "NoteOff")
    /\ Len(tracks) >= 1

(***************************************************************************)
(* C13.  Running status.                                                   *)
(***************************************************************************)
\* The events parseEvents has returned so far for the track.
ParsedEvents == IF midiFile.tracks # <<>> THEN midiFile.tracks[1] ELSE events

\* parseEvent is about to be called and the buffer holds a delta time at the
\* cursor and a byte after it.
AtStatusByte ==
    /\ pc = "parse"
    /\ unpackVLQ(memoryMap, position, 0).raised = "none"
    /\ unpackVLQ(memoryMap, position, 0).position < Len(memoryMap)

\* The position of the byte after the delta time (from 0), and the byte.
StatusPosition == unpackVLQ(memoryMap, position, 0).position

StatusByte == memoryMap[StatusPosition + 1]

\* The first data byte of a channel event.
FirstDataByte(e) == IF e.type \in {"NoteOn", "NoteOff"} THEN e.note ELSE e.data[1]

\* C13: in a call of parseEvent, a byte after the delta time with the high bit
\* set becomes the running status; one with the high bit clear leaves the running
\* status as it is, and when that is the status of a channel event the event
\* returned is of the class and channel of the running status, with the byte as
\* its first data byte, the cursor ending just after the data bytes counted from
\* that byte.  So the bytes 00 90 3C 64 00 40 64 are parsed as NoteOn(ch 0, 60, 100),
\* NoteOn(ch 0, 64, 100).
C13_RunningStatus ==
    /\ [][AtStatusByte =>
            /\ StatusByte >= 128 => parseState'.runningStatus = StatusByte
            /\ StatusByte < 128 =>
                   /\ parseState' = parseState
                   /\ (error' = "none" /\ parseState.runningStatus \in 128..239) =>
                          LET e == events'[Len(events')]
                              class == channelEventByStatus[
                                           parseState.runningStatus
                                               - (parseState.runningStatus % 16)]
                          IN  /\ Len(events') = Len(events) + 1
                              /\ e.channel = parseState.runningStatus % 16
                              /\ e.type = IF class = "NoteOn" /\ memoryMap[StatusPosition + 2] = 0
                                          THEN "NoteOff" ELSE class
                              /\ FirstDataByte(e) = StatusByte
                              /\ position' = StatusPosition + ChannelSize(class)]_vars
    /\ []((Len(memoryMap) >= 7 /\ SubSeq(memoryMap, 1, 7) = <<0, 144, 60, 100, 0, 64, 100>>
              /\ Len(ParsedEvents) >= 2)
           => /\ ParsedEvents[1] = NoteOnEvent(0, 0, 60, 100)
              /\ ParsedEvents[2] = NoteOnEvent(0, 0, 64, 100))

\* parseEvent has decoded 00 90 3C 64 00 40 64: two events are there, the cursor
\* after the seven bytes, 0x90 being the running status.
C13_Witness ==
    /\ Len(memoryMap) >= 7
    /\ SubSeq(memoryMap, 1, 7) = <<0, 144, 60, 100, 0, 64, 100>>
    /\ Len(events) = 2
    /\ position = 7
    /\ parseState.runningStatus = 144

(***************************************************************************)
(* C14.  NoteOn events of velocity 0.                                      *)
(***************************************************************************)
\* The status parseEvent is about to decode an event with, and the position
\* (from 0) of the first byte after that status.
EffectiveStatus == IF StatusByte >= 128 THEN StatusByte ELSE parseState.runningStatus

DataPosition == IF StatusByte >= 128 THEN StatusPosition + 1 ELSE StatusPosition

\* C14: no event parseEvents returns is a NoteOn of velocity 0; a 0x9n event
\* whose velocity byte is 0 is returned as NoteOffEvent(deltaTime, n, note, 0),
\* the very event that the same bytes give under the status 0x8n, so that the
\* assembler is handed the same event in both cases.
C14_ZeroVelocityNoteOn ==
    /\ [](\A i \in 1..Len(ParsedEvents) :
             ParsedEvents[i].type = "NoteOn" => ParsedEvents[i].velocity # 0)
    /\ [][(AtStatusByte /\ EffectiveStatus \in 144..159
               /\ DataPosition + 2 <= Len(memoryMap) /\ memoryMap[DataPosition + 2] = 0)
           => /\ error' = "none"
              /\ events' = Append(events,
                     NoteOffEvent(unpackVLQ(memoryMap, position, 0).value,
                                  EffectiveStatus - 144, memoryMap[DataPosition + 1], 0))
              /\ events'[Len(events')]
                     = parseChannelEvent(unpackVLQ(memoryMap, position, 0).value,
                                         EffectiveStatus - 16, memoryMap, DataPosition).event
              /\ position' = DataPosition + 2]_vars

\* The bytes Tempo(500000), 00 90 3C 64, 83 60 3C 00, EndOfTrack: the note of
\* the NoteOn was closed 480 ticks later by the pair 3C 00 under the running
\* status 0x90, and readMIDIFile returned it.
C14_Witness ==
    /\ memoryMap = <<0, 255, 81, 3, 7, 161, 32, 0, 144, 60, 100, 131, 96, 60, 0, 0, 255, 47, 0>>
    /\ pc = "done"
    /\ Len(tracks) = 1
    /\ tracks[1].notes = <<MIDINote(0, 60, 0, 480 * 500000, <<100, 127>>)>>

(***************************************************************************)
(* C15.  The end of parseEvents.                                           *)
(***************************************************************************)
\* parseEvent is about to decode an EndOfTrack meta event whose length is there.
AtEndOfTrackBytes ==
    /\ AtStatusByte
    /\ EffectiveStatus = 255
    /\ DataPosition < Len(memoryMap)
    /\ memoryMap[DataPosition + 1] = 47
    /\ unpackVLQ(memoryMap, DataPosition + 1, 0).raised = "none"

\* C15: while parseEvents loops, no event it holds is an EndOfTrack; the call of
\* parseEvent that decodes an EndOfTrack ends the loop, the events so far with
\* that event at their end being the track, and leaves the cursor just after the
\* length of the event; the cursor does not move afterwards.  So the track
\* returned holds exactly one EndOfTrack, its last event.
C15_StopsAtEndOfTrack ==
    /\ [](pc = "parse" => ~HasType(events, "EndOfTrack"))
    /\ [](midiFile.tracks # <<>> =>
             \A i \in 1..Len(midiFile.tracks[1]) :
                 midiFile.tracks[1][i].type = "EndOfTrack" <=> i = Len(midiFile.tracks[1]))
    /\ [][AtEndOfTrackBytes =>
            /\ pc' = "tempoMap"
            /\ midiFile'.tracks =
                   <<Append(events, EndOfTrackEvent(unpackVLQ(memoryMap, position, 0).value))>>
            /\ position' = unpackVLQ(memoryMap, DataPosition + 1, 0).position]_vars
    /\ [][pc # "parse" => position' = position]_vars

\* parseEvents has returned a track of several events and bytes are left after
\* the cursor, readMIDIFile having run to its end.
C15_Witness ==
    /\ pc = "done"
    /\ Len(midiFile.tracks) = 1
    /\ Len(midiFile.tracks[1]) >= 3
    /\ position < Len(memoryMap)

(***************************************************************************)
(* C16.  Variable-length quantities, there and back.                       *)
(***************************************************************************)
\* C16: where the buffer starts with the variable-length quantity of a value v,
\* unpackVLQ at the start of the buffer returns v and leaves the cursor just
\* after the last byte of the quantity, and the first event parseEvent returns
\* has v as its deltaTime.
C16_VLQRoundTrip ==
    \A v \in VLQValues :
        (Len(memoryMap) >= Len(EncodeVLQ(v))
            /\ SubSeq(memoryMap, 1, Len(EncodeVLQ(v))) = EncodeVLQ(v))
        => /\ unpackVLQ(memoryMap, 0, 0)
                  = [raised |-> "none", value |-> v, position |-> Len(EncodeVLQ(v))]
           /\ ParsedEvents # <<>> => ParsedEvents[1].deltaTime = v

\* The event after the five bytes of the quantity of 2^28 has been parsed.
C16_Witness ==
    /\ Len(memoryMap) >= 5
    /\ SubSeq(memoryMap, 1, 5) = <<129, 128, 128, 128, 0>>
    /\ ParsedEvents # <<>>
    /\ ParsedEvents[1].deltaTime = 268435456

(***************************************************************************)
(* C17.  Variable-length quantities of many bytes.                         *)
(***************************************************************************)
\* The bytes with the high bit set in a row from position p (from 0) of mm.
RECURSIVE ContinuationBytes(_, _)
ContinuationBytes(mm, p) ==
    IF p < Len(mm) /\ mm[p + 1] >= 128 THEN 1 + ContinuationBytes(mm, p + 1) ELSE 0

\* C17 as stated: a call of parseEvent on a delta time of more than 4
\* continuation bytes raises an error.
C17_VLQBounded ==
    [][(pc = "parse" /\ ContinuationBytes(memoryMap, position) > 4) => error' # "none"]_vars

(***************************************************************************)
(* C18.  Parsing comes to an end.                                          *)
(***************************************************************************)
\* C18: the cursor stays within the buffer and the events returned so far are no
\* more than the bytes read; a call of parseEvent that returns leaves the cursor at
\* least one byte further; a call with the cursor at the end of the buffer raises;
\* parseEvents ends, and it ends by an error or by returning a track whose last
\* event is the EndOfTrack just parsed.
C18_ParsingTerminates ==
    /\ [](position <= Len(memoryMap) /\ (pc = "parse" => Len(events) <= position))
    /\ [][(pc = "parse" /\ error' = "none") => position' >= position + 1]_vars
    /\ [][(pc = "parse" /\ position >= Len(memoryMap)) => error' # "none"]_vars
    /\ [][(pc = "parse" /\ pc' # "parse") =>
            \/ error' # "none"
            \/ /\ midiFile'.tracks # <<>>
               /\ midiFile'.tracks[1][Len(midiFile'.tracks[1])].type = "EndOfTrack"]_vars
    /\ <>(pc \notin {"open", "parse"})

\* parseEvents ended by an error at the end of a buffer of which it had parsed
\* three events.
C18_Witness ==
    /\ pc = "error"
    /\ error = "struct.error"
    /\ Len(events) = 3
    /\ position = Len(memoryMap)

(***************************************************************************)
(* C19.  Meta events of a type that is not in metaEventByType.             *)
(***************************************************************************)
\* parseEvent is about to decode a meta event whose type byte is not a key of
\* metaEventByType and whose length and payload are all in the buffer.
AtUnknownMetaBytes ==
    /\ AtStatusByte
    /\ EffectiveStatus = 255
    /\ DataPosition < Len(memoryMap)
    /\ memoryMap[DataPosition + 1] \notin DOMAIN metaEventByType
    /\ unpackVLQ(memoryMap, DataPosition + 1, 0).raised = "none"
    /\ unpackVLQ(memoryMap, DataPosition + 1, 0).position
         + unpackVLQ(memoryMap, DataPosition + 1, 0).value <= Len(memoryMap)

\* C19 as stated: a meta event of an unrecognised type raises no error; the
\* cursor ends just after the payload of the declared length, no event is added
\* for it and parseEvents goes on with the next event.
C19_UnknownMetaSkipped ==
    [][AtUnknownMetaBytes =>
          /\ error' = "none"
          /\ pc' = "parse"
          /\ events' = events
          /\ position' = unpackVLQ(memoryMap, DataPosition + 1, 0).position
                           + unpackVLQ(memoryMap, DataPosition + 1, 0).value]_vars

(***************************************************************************)
(* C20.  The lookup in channelEventByStatus.                               *)
(***************************************************************************)
\* The statuses parseEvent hands to parseChannelEvent.
ChannelStatuses == (128..254) \ {240, 247}

\* C20 as stated: for every status that parseEvent hands to parseChannelEvent
\* the lookup finds a class, so that no KeyError is raised, and when the two bytes
\* a channel event reads at most are in the buffer an event is returned.
C20_ChannelLookupTotal ==
    [][(AtStatusByte /\ EffectiveStatus \in ChannelStatuses) =>
          /\ error' # "KeyError"
          /\ DataPosition + 2 <= Len(memoryMap) => error' = "none"]_vars

(***************************************************************************)
(* C21.  The ranges of the fields of a note.                               *)
(***************************************************************************)
\* C21 as stated: every note of every track readMIDIFile returns has its channel
\* in 0..15, its noteNumber in 0..127 and its velocity raw / 127 from 0 to 1.
C21_NoteFieldRanges ==
    pc = "done" =>
        \A t \in 1..Len(tracks) : \A i \in 1..Len(tracks[t].notes) :
            /\ tracks[t].notes[i].channel \in 0..15
            /\ tracks[t].notes[i].noteNumber \in 0..127
            /\ tracks[t].notes[i].velocity[2] = 127
            /\ tracks[t].notes[i].velocity[1] \in 0..127

(***************************************************************************)
(* C22.  The index of the tracks returned.                                 *)
(***************************************************************************)
\* C22: the tracks kept by the loop over fileTracks are numbered 0, 1, 2, ... in
\* order, whatever tracks were discarded between them, and so are the tracks that
\* readMIDIFile returns, for the three formats: for format 0 these are the tracks
\* of the channels that have notes, numbered without a gap for a channel that has
\* none.
C22_DenseIndex ==
    /\ \A k \in 1..Len(workingTracks) : workingTracks[k].index = k - 1
    /\ pc = "done" => \A k \in 1..Len(tracks) : tracks[k].index = k - 1

\* readMIDIFile has returned two tracks of a format 1 file, the file track
\* between theirs being discarded.
C22_Witness ==
    /\ pc = "done"
    /\ midiFile.midiFormat = 1
    /\ Len(tracks) = 2
    /\ origin = <<2, 4>>

(***************************************************************************)
(* C23.  The bytes a meta event takes.                                     *)
(***************************************************************************)
\* parseEvent is about to decode a meta event whose type is a key of
\* metaEventByType and whose length and payload, as long as the length says, are
\* all in the buffer.
AtKnownMetaBytes ==
    /\ AtStatusByte
    /\ EffectiveStatus = 255
    /\ DataPosition < Len(memoryMap)
    /\ memoryMap[DataPosition + 1] \in DOMAIN metaEventByType
    /\ unpackVLQ(memoryMap, DataPosition + 1, 0).raised = "none"
    /\ unpackVLQ(memoryMap, DataPosition + 1, 0).position
         + unpackVLQ(memoryMap, DataPosition + 1, 0).value <= Len(memoryMap)

\* C23 as stated: a meta event of a recognised type is decoded without error and
\* leaves the cursor as many bytes after the end of its length field as the length
\* field says.
C23_MetaLength ==
    [][AtKnownMetaBytes =>
          /\ error' = "none"
          /\ position' = unpackVLQ(memoryMap, DataPosition + 1, 0).position
                           + unpackVLQ(memoryMap, DataPosition + 1, 0).value]_vars

(***************************************************************************)
(* C24.  minNote, maxNote and notesUsed of a track, formats 1 and 2.       *)
(***************************************************************************)
\* The positions of the NoteOn events of evs, and of those of the note n.
NoteOnsIn(evs) == {i \in 1..Len(evs) : evs[i].type = "NoteOn"}

FirstNoteOn(evs, n) ==
    CHOOSE i \in NoteOnsIn(evs) :
        /\ evs[i].note = n
        /\ \A j \in NoteOnsIn(evs) : evs[j].note = n => i <= j

\* C24: for a file of format 1 or 2, each track returned has for minNote and
\* maxNote the least and the greatest note of the NoteOn events of its file track;
\* its notesUsed holds the notes of these NoteOn events, each once, in the order in
\* which they are first seen; and each of its notes has its noteNumber in notesUsed,
\* from minNote to maxNote.
C24_NoteStatistics ==
    (pc = "done" /\ midiFile.midiFormat # 0) =>
        \A k \in 1..Len(tracks) :
            LET evs == midiFile.tracks[origin[k]]
                t == tracks[k]
            IN  /\ NoteOnsIn(evs) # {}
                /\ \E i \in NoteOnsIn(evs) : evs[i].note = t.minNote
                /\ \E i \in NoteOnsIn(evs) : evs[i].note = t.maxNote
                /\ \A i \in NoteOnsIn(evs) :
                       /\ t.minNote <= evs[i].note
                       /\ evs[i].note <= t.maxNote
                       /\ InList(evs[i].note, t.notesUsed)
                /\ \A a \in 1..Len(t.notesUsed) :
                       \E i \in NoteOnsIn(evs) : evs[i].note = t.notesUsed[a]
                /\ \A a, b \in 1..Len(t.notesUsed) :
                       a < b => FirstNoteOn(evs, t.notesUsed[a]) < FirstNoteOn(evs, t.notesUsed[b])
                /\ \A i \in 1..Len(t.notes) :
                       /\ InList(t.notes[i].noteNumber, t.notesUsed)
                       /\ t.minNote <= t.notes[i].noteNumber
                       /\ t.notes[i].noteNumber <= t.maxNote

\* A track returned for a format 2 file whose track has more NoteOn events than
\* notes used, and three notes used.
C24_Witness ==
    /\ pc = "done"
    /\ midiFile.midiFormat = 2
    /\ Len(tracks) = 1
    /\ Len(tracks[1].notesUsed) = 3
    /\ Cardinality(NoteOnsIn(midiFile.tracks[1])) > 3
    /\ tracks[1].notes # <<>>

(***************************************************************************)
(* C25.  The name of a track.                                              *)
(***************************************************************************)
\* The positions of the TrackName events of evs; the name of the last and of
\* the first of them, "" when there is none.
TrackNamesIn(evs) == {i \in 1..Len(evs) : evs[i].type = "TrackName"}

LastName(evs) ==
    IF TrackNamesIn(evs) = {} THEN ""
    ELSE evs[CHOOSE i \in TrackNamesIn(evs) : \A j \in TrackNamesIn(evs) : j <= i].name

FirstName(evs) ==
    IF TrackNamesIn(evs) = {} THEN ""
    ELSE evs[CHOOSE i \in TrackNamesIn(evs) : \A j \in TrackNamesIn(evs) : i <= j].name

\* C25 as amended: the name of a track returned for a file of format 1 or 2 is the
\* name of the last TrackName event of its file track, "" when the track has none;
\* for format 0 it is that name of file track 0 followed by "-ch" and the channel of
\* the track.
C25_TrackName ==
    pc = "done" =>
        \A k \in 1..Len(tracks) :
            tracks[k].name =
                IF midiFile.midiFormat # 0 THEN LastName(midiFile.tracks[origin[k]])
                ELSE <<LastName(midiFile.tracks[origin[k]]), "-ch", tracks[k].notes[1].channel>>

\* readMIDIFile has returned the track of a format 2 file whose track has two
\* TrackName events of different names.
C25_Witness ==
    /\ pc = "done"
    /\ midiFile.midiFormat = 2
    /\ Len(tracks) = 1
    /\ Cardinality(TrackNamesIn(midiFile.tracks[1])) = 2
    /\ FirstName(midiFile.tracks[1]) # LastName(midiFile.tracks[1])

\* C25 as stated: the name is that of the first TrackName event of the file
\* track, "" when it has none (for format 0, the name starts with it).
C25_FirstNameWins ==
    pc = "done" =>
        \A k \in 1..Len(tracks) :
            IF midiFile.midiFormat # 0
            THEN tracks[k].name = FirstName(midiFile.tracks[origin[k]])
            ELSE tracks[k].name[1] = FirstName(midiFile.tracks[origin[k]])

(***************************************************************************)
(* C26.  The explosion of a format 0 file into the tracks of its channels. *)
(***************************************************************************)
\* The positions in the notes ns of the notes of the channel, and the j-th of
\* them.
OnChannel(ns, channel) == {i \in 1..Len(ns) : ns[i].channel = channel}

NthOnChannel(ns, channel, j) ==
    CHOOSE i \in OnChannel(ns, channel) :
        Cardinality({m \in OnChannel(ns, channel) : m <= i}) = j

\* C26: when readMIDIFile returns for a format 0 file, the tracks are as many as
\* the channels of the notes assembled for file track 0, at most 16; each track
\* holds notes of one channel, the channels going up from track to track; the notes
\* of a track are the notes assembled for file track 0 on its channel, all of them
\* and in their order; and every note assembled is on the channel of a track.
C26_ChannelExplosion ==
    (pc = "done" /\ midiFile.midiFormat = 0) =>
        LET ns == workingTracks[1].notes
        IN  /\ Len(tracks) = Cardinality({ns[i].channel : i \in 1..Len(ns)})
            /\ Len(tracks) <= 16
            /\ \A k \in 1..Len(tracks) :
                   LET t == tracks[k].notes
                   IN  /\ t # <<>>
                       /\ \A j \in 1..Len(t) : t[j].channel = t[1].channel
                       /\ Len(t) = Cardinality(OnChannel(ns, t[1].channel))
                       /\ \A j \in 1..Len(t) : t[j] = ns[NthOnChannel(ns, t[1].channel, j)]
            /\ \A k, l \in 1..Len(tracks) :
                   k < l => tracks[k].notes[1].channel < tracks[l].notes[1].channel
            /\ \A i \in 1..Len(ns) :
                   \E k \in 1..Len(tracks) : tracks[k].notes[1].channel = ns[i].channel

\* A format 0 file exploded into two tracks, the first of two notes between
\* which a note of the other channel was assembled.
C26_Witness ==
    /\ pc = "done"
    /\ midiFile.midiFormat = 0
    /\ Len(tracks) = 2
    /\ Len(tracks[1].notes) = 2
    /\ tracks[1].notes[1] # tracks[1].notes[2]
    /\ Len(workingTracks[1].notes) = 3
    /\ workingTracks[1].notes[2].channel = tracks[2].notes[1].channel

(***************************************************************************)
(* C27.  The time range of determineGlobalRanges.                          *)
(***************************************************************************)
\* Every note of the tracks returned.
ReturnedNotes ==
    UNION {{tracks[t].notes[i] : i \in 1..Len(tracks[t].notes)} : t \in 1..Len(tracks)}

\* C27 as stated: when determineGlobalRanges returns for tracks that are there,
\* each with a note, timeMin is the least timeOn and timeMax the greatest timeOff
\* of the notes of all the tracks.
C27_GlobalTimeRange ==
    (pc = "ranges" /\ tracks # <<>>) =>
        /\ stats.timeMin # <<>>
        /\ \E n \in ReturnedNotes : n.timeOn = stats.timeMin[1]
        /\ \A n \in ReturnedNotes : stats.timeMin[1] <= n.timeOn
        /\ \E n \in ReturnedNotes : n.timeOff = stats.timeMax
        /\ \A n \in ReturnedNotes : n.timeOff <= stats.timeMax

(***************************************************************************)
(* C28.  What parseEvents returns.                                         *)
(***************************************************************************)
\* C28 as stated: when parseEvents has returned, every element of the list it
\* returned is an event, with a deltaTime, and none is None.
C28_EventsAreRecords ==
    midiFile.tracks # <<>> =>
        \A i \in 1..Len(midiFile.tracks[1]) :
            /\ midiFile.tracks[1][i] # None
            /\ "deltaTime" \in DOMAIN midiFile.tracks[1][i]

(***************************************************************************)
(* C29.  A format 0 file without a NoteOn event.                           *)
(***************************************************************************)
\* A format 0 file of one track that has a Tempo event at tick 0 and no NoteOn
\* event, and no NoteOff event without its NoteOn.
NoNoteOnFile ==
    /\ Parsed
    /\ midiFile.midiFormat = 0
    /\ Len(midiFile.tracks) = 1
    /\ midiFile.tracks[1][1].type = "Tempo"
    /\ ~HasType(midiFile.tracks[1], "NoteOn")
    /\ ~HasType(midiFile.tracks[1], "NoteOff")

\* C29 as stated: on such a file readMIDIFile raises no error, and the list of
\* tracks it returns is empty.
C29_NoNoteOnFormat0 ==
    NoNoteOnFile =>
        /\ error = "none"
        /\ pc = "done" => tracks = <<>>

(***************************************************************************)
(* C30.  The table of the open notes.                                      *)
(***************************************************************************)
\* The NoteOn event that made the entry of the key, n events of evs being
\* done: the first event of the key since the key was last closed.
Opening(evs, n, key) ==
    CHOOSE i \in KeyEvents(evs, LastClosed(evs, n, key) + 1, n, key) :
        \A j \in KeyEvents(evs, LastClosed(evs, n, key) + 1, n, key) : i <= j

\* C30: while a track is assembled, the keys of noteOnTable are the keys that
\* have had more NoteOn than NoteOff events since they were last closed; the entry
\* of a key has numberOfNotes at least 1 and equal to that difference, and its
\* ticks, time and velocity are those of the NoteOn event that made it; and at the
\* end of a track with entries left the track is kept with the notes emitted
\* before, the entries adding none.
C30_OpenNoteTable ==
    /\ []((pc = "assemble" /\ trackIndex < Len(fileTracks)) =>
            /\ \A key \in DOMAIN trackState.noteOnTable :
                   LET rec == trackState.noteOnTable[key]
                       made == Opening(trackEvents, eventIndex - 1, key)
                   IN  /\ rec.numberOfNotes >= 1
                       /\ rec.numberOfNotes = Depth(trackEvents, eventIndex - 1, key)
                       /\ trackEvents[made].type = "NoteOn"
                       /\ rec.ticks = TicksAt(trackEvents, made)
                       /\ rec.time = SecondsAt(made)
                       /\ rec.velocity = <<trackEvents[made].velocity, 127>>
            /\ \A key \in Keys :
                   Depth(trackEvents, eventIndex - 1, key) >= 1
                       => key \in DOMAIN trackState.noteOnTable)
    /\ [][(pc = "assemble" /\ trackIndex < Len(fileTracks)
              /\ eventIndex > Len(trackEvents)
              /\ DOMAIN trackState.noteOnTable # {})
          => /\ Len(workingTracks') = Len(workingTracks) + 1
             /\ workingTracks'[Len(workingTracks')].notes = notes
             /\ trackState' = TrackState]_vars

\* The entry of a key counts two notes, a NoteOff event of the key being among
\* the events done and time having passed since the NoteOn event that made the
\* entry, whose velocity is not that of the last event done.
C30_Witness ==
    /\ pc = "assemble"
    /\ trackIndex < Len(fileTracks)
    /\ \E key \in DOMAIN trackState.noteOnTable :
           /\ trackState.noteOnTable[key].numberOfNotes = 2
           /\ \E i \in KeyEvents(trackEvents, 1, eventIndex - 1, key) :
                  trackEvents[i].type = "NoteOff"
           /\ trackState.noteOnTable[key].time < trackState.timeInSeconds
           /\ trackState.noteOnTable[key].velocity
                  # <<trackEvents[eventIndex - 1].velocity, 127>>

====
